---- MODULE Spec2Model ----
(***************************************************************************)
(* The part-resolution and merge pipeline of scripts/part_importer.py      *)
(* (ensure_parts_exist and its helpers; scripts/inventree_sync holds the   *)
(* same helpers split over modules), against an abstract InvenTree backend *)
(* and abstract LCSC / Mouser catalogs.                                    *)
(*                                                                         *)
(* Text is modelled by TLA+ strings; "" is Python's empty (falsy) string.  *)
(* Optional[X] is a sequence of length 0 (None) or 1 (the value).          *)
(* Backend tables are sequences; a record's pk is its index, and a list    *)
(* call returns the matching records in pk order.                          *)
(***************************************************************************)
EXTENDS Integers, Sequences, FiniteSets, TLC

(***************************************************************************)
(* Bounds of the model.                                                    *)
(***************************************************************************)
\* longest BOM drawn at Init
MaxLines == 2
\* number of consecutive runs of ensure_parts_exist over the same BOM
MaxRuns == 2
\* failing backend / catalog calls injected per behaviour of Spec
MaxFaults == 1

(***************************************************************************)
(* Text helpers (Python str / re semantics on the characters used).        *)
(***************************************************************************)
Char(s, i) == SubSeq(s, i, i)

\* characters matched by \s
WhiteSpace == {" ", "\t"}

\* characters matched by \d
Digits == {"0", "1", "2", "3", "4", "5", "6", "7", "8", "9"}

\* characters matched by \w
WordChars ==
    Digits \cup {"_"} \cup
    {"a", "b", "c", "d", "e", "f", "g", "h", "i", "j", "k", "l", "m",
     "n", "o", "p", "q", "r", "s", "t", "u", "v", "w", "x", "y", "z",
     "A", "B", "C", "D", "E", "F", "G", "H", "I", "J", "K", "L", "M",
     "N", "O", "P", "Q", "R", "S", "T", "U", "V", "W", "X", "Y", "Z"}

\* length of the longest prefix of s made of characters of set cs
LeadingRun(s, cs) ==
    CHOOSE k \in 0..Len(s) :
        /\ \A i \in 1..k : Char(s, i) \in cs
        /\ (k = Len(s) \/ Char(s, k + 1) \notin cs)

\* length of the longest suffix of s made of characters of set cs
TrailingRun(s, cs) ==
    CHOOSE k \in 0..Len(s) :
        /\ \A i \in (Len(s) - k + 1)..Len(s) : Char(s, i) \in cs
        /\ (k = Len(s) \/ Char(s, Len(s) - k) \notin cs)

\* s[k:] in Python
Drop(s, k) == IF k >= Len(s) THEN "" ELSE SubSeq(s, k + 1, Len(s))

\* str.strip()
Strip(s) ==
    LET a == LeadingRun(s, WhiteSpace)
    IN  IF a = Len(s) THEN ""
        ELSE SubSeq(s, a + 1, Len(s) - TrailingRun(s, WhiteSpace))

\* re.sub(r"\s*/\s*", "/", s)
RECURSIVE SubSlash(_)
SubSlash(s) ==
    IF s = "" THEN ""
    ELSE LET k == LeadingRun(s, WhiteSpace)
         IN  IF k < Len(s) /\ Char(s, k + 1) = "/"
             THEN LET rest == Drop(s, k + 1)
                  IN  "/" \o SubSlash(Drop(rest, LeadingRun(rest, WhiteSpace)))
             ELSE Char(s, 1) \o SubSlash(Drop(s, 1))

\* re.sub(r"\s+", " ", s)
RECURSIVE CollapseSpace(_)
CollapseSpace(s) ==
    IF s = "" THEN ""
    ELSE LET k == LeadingRun(s, WhiteSpace)
         IN  IF k > 0 THEN " " \o CollapseSpace(Drop(s, k))
             ELSE Char(s, 1) \o CollapseSpace(Drop(s, 1))

\* footprint.split("_")[0]
FirstSegment(s) ==
    LET cut == {i \in 1..Len(s) : Char(s, i) = "_"}
    IN  IF cut = {} THEN s
        ELSE SubSeq(s, 1, (CHOOSE i \in cut : \A j \in cut : i <= j) - 1)

(***************************************************************************)
(* Naming helpers.                                                         *)
(***************************************************************************)
\* lengths n of a group matched by (\w+?) in re.match(r"(?:C|R|L)_(\w+?)_", fp)
PackageMatches(footprint) ==
    IF Len(footprint) < 4 \/ Char(footprint, 1) \notin {"C", "R", "L"}
                          \/ Char(footprint, 2) # "_"
    THEN {}
    ELSE {n \in 1..(Len(footprint) - 3) :
              /\ \A i \in 3..(2 + n) : Char(footprint, i) \in WordChars
              /\ Char(footprint, 3 + n) = "_"}

extract_package(footprint) ==
    LET ns == PackageMatches(footprint)
    IN  IF ns # {}
        THEN SubSeq(footprint, 3, 2 + (CHOOSE n \in ns : \A m \in ns : n <= m))
        ELSE FirstSegment(footprint)

\* the value normalisation at the head of generate_part_name
NormaliseValue(kicad_value) == Strip(CollapseSpace(SubSlash(Strip(kicad_value))))

generate_part_name(kicad_part, kicad_value, footprint) ==
    LET val == NormaliseValue(kicad_value)
    IN  IF kicad_part = "R" THEN "R " \o val \o " " \o extract_package(footprint)
        ELSE IF kicad_part = "C" THEN "C " \o val \o " " \o extract_package(footprint)
        ELSE IF kicad_part = "C_Polarized" THEN "CP " \o val
        ELSE IF kicad_part \in {"L", "L_Iron"} THEN "L " \o val
        ELSE IF kicad_part = "Crystal" THEN "XTAL " \o val
        ELSE val

(***************************************************************************)
(* Category mapping.                                                       *)
(***************************************************************************)
KICAD_CATEGORY_MAP ==
    ("R" :> <<"Resistors", "Surface Mount">>)
 @@ ("R_Small" :> <<"Resistors", "Surface Mount">>)
 @@ ("R_Network" :> <<"Resistors", "Surface Mount">>)
 @@ ("RN" :> <<"Resistors", "Surface Mount">>)
 @@ ("R_Potentiometer" :> <<"Resistors", "Potentiometers">>)
 @@ ("R_Thermsistor" :> <<"Resistors", "NTC">>)
 @@ ("C" :> <<"Capacitors", "Ceramic">>)
 @@ ("C_Small" :> <<"Capacitors", "Ceramic">>)
 @@ ("C_Polarized" :> <<"Capacitors", "Aluminium">>)
 @@ ("C_Polarized_Small" :> <<"Capacitors", "Aluminium">>)
 @@ ("CP" :> <<"Capacitors", "Aluminium">>)
 @@ ("C_Tantalum" :> <<"Capacitors", "Tantalum">>)
 @@ ("C_Polymer" :> <<"Capacitors", "Polymer">>)
 @@ ("C_SuperCapacitor" :> <<"Capacitors", "Super Capacitors">>)
 @@ ("L" :> <<"Inductors", "Power">>)
 @@ ("L_Iron" :> <<"Inductors", "Power">>)
 @@ ("L_Small" :> <<"Inductors", "Power">>)
 @@ ("Ferrite_Bead" :> <<"Inductors", "Ferrite Bead">>)
 @@ ("Ferrite_Bead_Small" :> <<"Inductors", "Ferrite Bead">>)
 @@ ("D" :> <<"Diodes", "Standard">>)
 @@ ("D_Schottky" :> <<"Diodes", "Schottky">>)
 @@ ("D_Zener" :> <<"Diodes", "Zener">>)
 @@ ("D_TVS" :> <<"Circuit Protections", "TVS">>)
 @@ ("LED" :> <<"Diodes", "LED">>)
 @@ ("LED_RGB" :> <<"Diodes", "LED">>)
 @@ ("BAT43W-V" :> <<"Diodes", "Schottky">>)
 @@ ("USBLC6-2SC6" :> <<"Circuit Protections", "TVS">>)
 @@ ("Q_NPN_BCE" :> <<"Transistors", "NPN">>)
 @@ ("Q_PNP_BCE" :> <<"Transistors", "PNP">>)
 @@ ("Q_NMOS_GSD" :> <<"Transistors", "N-Channel FET">>)
 @@ ("Q_PMOS_GSD" :> <<"Transistors", "P-Channel FET">>)
 @@ ("Q_NMOS_GDS" :> <<"Transistors", "N-Channel FET">>)
 @@ ("Q_Load_Switch_P" :> <<"Transistors", "Load Switches">>)
 @@ ("2N7002" :> <<"Transistors", "N-Channel FET">>)
 @@ ("BC847BS" :> <<"Transistors", "NPN">>)
 @@ ("Crystal" :> <<"Crystals and Oscillators", "Crystals">>)
 @@ ("Crystal_GND24" :> <<"Crystals and Oscillators", "Crystals">>)
 @@ ("Oscillator" :> <<"Crystals and Oscillators", "Oscillators">>)
 @@ ("LMR51430" :> <<"Power Management", "Buck">>)
 @@ ("TLV73333PDBV" :> <<"Power Management", "LDO">>)
 @@ ("Regulator_Linear" :> <<"Power Management", "LDO">>)
 @@ ("Regulator_Switching" :> <<"Power Management", "Buck">>)
 @@ ("STM32U575CITx" :> <<"Integrated Circuits", "Microcontroller">>)
 @@ ("CAT24C128" :> <<"Integrated Circuits", "Memory">>)
 @@ ("IC_Generic" :> <<"Integrated Circuits">>)
 @@ ("SA818V" :> <<"RF", "Chipset">>)
 @@ ("LFCN-160" :> <<"RF", "Filter">>)
 @@ ("Antenna" :> <<"RF", "Antenna">>)
 @@ ("Antenna_Shield" :> <<"RF", "Shield">>)
 @@ ("Conn_Coaxial" :> <<"Connectors", "Coaxial">>)
 @@ ("Conn_01x01" :> <<"Connectors", "Header">>)
 @@ ("Conn_01x02" :> <<"Connectors", "Header">>)
 @@ ("Conn_01x03" :> <<"Connectors", "Header">>)
 @@ ("Conn_01x04" :> <<"Connectors", "Header">>)
 @@ ("Conn_02x10_Row_Letter_First" :> <<"Connectors", "Header">>)
 @@ ("Conn_ARM_JTAG_SWD_10" :> <<"Connectors", "Header">>)
 @@ ("USB_C_Receptacle" :> <<"Connectors", "Interface">>)
 @@ ("USB_B_Micro" :> <<"Connectors", "Interface">>)
 @@ ("Conn_FPC" :> <<"Connectors", "FPC">>)
 @@ ("BatteryHolder" :> <<"Connectors", "Battery">>)
 @@ ("SW_Push" :> <<"Mechanicals", "Switch">>)
 @@ ("SW_SPDT" :> <<"Mechanicals", "Switch">>)
 @@ ("Mounting_Hole" :> <<"Mechanicals">>)

(***************************************************************************)
(* Data model.                                                             *)
(***************************************************************************)
\* Optional[X]: None, or the one-element sequence holding the value
None == << >>

Some(v) == <<v>>

\* the dataclass PartData with its field defaults
PartData ==
    [mpn |-> "", manufacturer |-> "", description |-> "", image_url |-> "",
     datasheet_url |-> "", supplier_link |-> "", lcsc_sku |-> "",
     mouser_sku |-> "", category_path |-> << >>, parameters |-> << >>,
     price_breaks |-> << >>, currency |-> "EUR", package |-> ""]

\* one row of the BOM (the fields ensure_parts_exist reads)
BomEntry(lcsc, mouser, kicad_part, kicad_value, kicad_footprint, inventree_part) ==
    [lcsc |-> lcsc, mouser |-> mouser, kicad_part |-> kicad_part,
     kicad_value |-> kicad_value, kicad_footprint |-> kicad_footprint,
     inventree_part |-> inventree_part]

\* skus[0] if skus else ""
FirstSku(skus) == IF skus = << >> THEN "" ELSE skus[1]

\* the least element of a non-empty set of integers
Least(S) == CHOOSE i \in S : \A j \in S : i <= j

\* sorted(price_breaks.items()): the quantities in ascending order
RECURSIVE SortedSeq(_)
SortedSeq(S) == IF S = {} THEN << >> ELSE <<Least(S)>> \o SortedSeq(S \ {Least(S)})

(***************************************************************************)
(* Catalogs: what the two supplier services hold.                          *)
(***************************************************************************)
\* LCSC product detail by product code, as LCSCFetcher._parse returns it
LcscProducts ==
    ("C1" :> [PartData EXCEPT !.mpn = "RC0805-10K", !.manufacturer = "YAGEO",
                              !.description = "10k 1% 0805",
                              !.image_url = "lcsc/C1.jpg",
                              !.datasheet_url = "lcsc/C1.pdf",
                              !.lcsc_sku = "C1", !.package = "0805",
                              !.parameters = ("Resistance" :> "10k"),
                              !.price_breaks = (10 :> 5 @@ 100 :> 3)])
 @@ ("C2" :> [PartData EXCEPT !.mpn = "X1", !.manufacturer = "Yageo",
                              !.lcsc_sku = "C2"])
 @@ ("C7" :> [PartData EXCEPT !.mpn = "X1", !.lcsc_sku = "C7",
                              !.description = "crystal 8MHz",
                              !.price_breaks = (10 :> 9)])

\* LCSC search: the product code picked for a part number ("" when none)
LcscSearchResults == ("X1" :> "C7")

\* Mouser exact part-number search, as MouserFetcher.fetch returns it
MouserProducts ==
    ("595-X1" :> [PartData EXCEPT !.mpn = "X1", !.manufacturer = "Yageo",
                                  !.description = "XTAL 8MHz 20pF",
                                  !.image_url = "mouser/X1.jpg",
                                  !.datasheet_url = "mouser/X1.pdf",
                                  !.mouser_sku = "595-X1",
                                  !.category_path = <<"Crystals">>,
                                  !.price_breaks = (1 :> 12 @@ 10 :> 8),
                                  !.currency = "USD"])
 @@ ("M2" :> [PartData EXCEPT !.mpn = "RC0805-10K", !.manufacturer = "Yageo",
                              !.description = "RES 10k",
                              !.mouser_sku = "M2"])

\* LCSCFetcher.fetch_by_sku when the service answers
LcscDetail(sku) ==
    IF sku \in DOMAIN LcscProducts THEN Some(LcscProducts[sku]) ELSE None

\* the product code LCSCFetcher.fetch_by_mpn selects when the service answers
LcscSearch(mpn) ==
    IF mpn \in DOMAIN LcscSearchResults THEN LcscSearchResults[mpn] ELSE ""

\* MouserFetcher.fetch when the service answers
MouserSearch(sku) ==
    IF sku \in DOMAIN MouserProducts THEN Some(MouserProducts[sku]) ELSE None

(***************************************************************************)
(* Fetch and merge.                                                        *)
(***************************************************************************)
\* re.match(r"^\d+-(.+)$", mouser_sku)
_strip_mouser_prefix(mouser_sku) ==
    LET k == LeadingRun(mouser_sku, Digits)
    IN  IF k >= 1 /\ Len(mouser_sku) >= k + 2 /\ Char(mouser_sku, k + 1) = "-"
        THEN Drop(mouser_sku, k + 1)
        ELSE mouser_sku

\* FillGaps that lets a non-empty Mouser description win
FillGapsMouserText(l, m) ==
    LET r1 == IF l.image_url = "" THEN [l EXCEPT !.image_url = m.image_url] ELSE l
        r2 == IF r1.datasheet_url = ""
              THEN [r1 EXCEPT !.datasheet_url = m.datasheet_url] ELSE r1
        r3 == IF DOMAIN r2.price_breaks = {}
              THEN [r2 EXCEPT !.price_breaks = m.price_breaks,
                              !.currency = m.currency]
              ELSE r2
    IN  IF m.description # "" THEN [r3 EXCEPT !.description = m.description] ELSE r3

\* a gap filling that takes Mouser's price breaks and keeps LCSC's currency
FillGapsKeepCurrency(l, m) ==
    LET r1 == IF l.image_url = "" THEN [l EXCEPT !.image_url = m.image_url] ELSE l
        r2 == IF r1.datasheet_url = ""
              THEN [r1 EXCEPT !.datasheet_url = m.datasheet_url] ELSE r1
        r3 == IF DOMAIN r2.price_breaks = {}
              THEN [r2 EXCEPT !.price_breaks = m.price_breaks]
              ELSE r2
    IN  IF r3.description = "" THEN [r3 EXCEPT !.description = m.description] ELSE r3

\* the gap filling of two found records: LCSC is primary, Mouser supplements
FillGaps(l, m) ==
    LET r1 == IF l.image_url = "" THEN [l EXCEPT !.image_url = m.image_url] ELSE l
        r2 == IF r1.datasheet_url = ""
              THEN [r1 EXCEPT !.datasheet_url = m.datasheet_url] ELSE r1
        r3 == IF DOMAIN r2.price_breaks = {}
              THEN [r2 EXCEPT !.price_breaks = m.price_breaks,
                              !.currency = m.currency]
              ELSE r2
    IN  IF r3.description = "" THEN [r3 EXCEPT !.description = m.description] ELSE r3

\* a merge that returns the single record as fetched, SKUs unstamped
MergePartDataUnstamped(lcsc_data, mouser_data, lcsc_sku, mouser_sku) ==
    IF lcsc_data = None /\ mouser_data = None
    THEN [result |-> None, lcsc_data |-> None, mouser_data |-> None]
    ELSE IF lcsc_data # None /\ mouser_data # None
    THEN LET stamped == [FillGaps(lcsc_data[1], mouser_data[1])
                            EXCEPT !.lcsc_sku = lcsc_sku, !.mouser_sku = mouser_sku]
         IN  [result |-> Some(stamped), lcsc_data |-> Some(stamped),
              mouser_data |-> mouser_data]
    ELSE [result |-> IF lcsc_data = None THEN mouser_data ELSE lcsc_data,
          lcsc_data |-> lcsc_data, mouser_data |-> mouser_data]


\* a merge that hands back a default record when neither fetcher answered
MergePartDataDefault(lcsc_data, mouser_data, lcsc_sku, mouser_sku) ==
    LET merged == IF lcsc_data = None /\ mouser_data = None THEN PartData
                  ELSE IF lcsc_data = None THEN mouser_data[1]
                  ELSE IF mouser_data = None THEN lcsc_data[1]
                  ELSE FillGaps(lcsc_data[1], mouser_data[1])
        stamped == [merged EXCEPT !.lcsc_sku = lcsc_sku, !.mouser_sku = mouser_sku]
    IN  [result |-> Some(stamped),
         lcsc_data |-> IF lcsc_data = None THEN None ELSE Some(stamped),
         mouser_data |-> IF lcsc_data = None /\ mouser_data # None
                         THEN Some(stamped) ELSE mouser_data]


\* a merge that leaves the SKUs as the fetchers set them
MergePartDataAsFetched(lcsc_data, mouser_data, lcsc_sku, mouser_sku) ==
    IF lcsc_data = None /\ mouser_data = None
    THEN [result |-> None, lcsc_data |-> None, mouser_data |-> None]
    ELSE LET merged == IF lcsc_data = None THEN mouser_data[1]
                       ELSE IF mouser_data = None THEN lcsc_data[1]
                       ELSE FillGaps(lcsc_data[1], mouser_data[1])
         IN  [result |-> Some(merged),
              lcsc_data |-> IF lcsc_data = None THEN None ELSE Some(merged),
              mouser_data |-> mouser_data]

\* a merge that stamps a SKU only when that supplier's fetcher answered
MergePartDataStampFound(lcsc_data, mouser_data, lcsc_sku, mouser_sku) ==
    IF lcsc_data = None /\ mouser_data = None
    THEN [result |-> None, lcsc_data |-> None, mouser_data |-> None]
    ELSE LET merged == IF lcsc_data = None THEN mouser_data[1]
                       ELSE IF mouser_data = None THEN lcsc_data[1]
                       ELSE FillGaps(lcsc_data[1], mouser_data[1])
             stamped == [merged EXCEPT
                           !.lcsc_sku = IF lcsc_data = None THEN "" ELSE lcsc_sku,
                           !.mouser_sku = IF mouser_data = None THEN "" ELSE mouser_sku]
         IN  [result |-> Some(stamped),
              lcsc_data |-> IF lcsc_data = None THEN None ELSE Some(stamped),
              mouser_data |-> IF lcsc_data = None THEN Some(stamped)
                              ELSE mouser_data]

\* The merge of _fetch_part_data, given what the fetchers returned.  The
\* result is the very object of the LCSC record (of the Mouser record when
\* LCSC returned none), written in place: lcsc_data / mouser_data are the
\* two fetched objects as they stand when the function returns.
MergePartData(lcsc_data, mouser_data, lcsc_sku, mouser_sku) ==
    IF lcsc_data = None /\ mouser_data = None
    THEN [result |-> None, lcsc_data |-> None, mouser_data |-> None]
    ELSE LET merged == IF lcsc_data = None THEN mouser_data[1]
                       ELSE IF mouser_data = None THEN lcsc_data[1]
                       ELSE FillGaps(lcsc_data[1], mouser_data[1])
             stamped == [merged EXCEPT !.lcsc_sku = lcsc_sku,
                                       !.mouser_sku = mouser_sku]
         IN  [result |-> Some(stamped),
              lcsc_data |-> IF lcsc_data = None THEN None ELSE Some(stamped),
              mouser_data |-> IF lcsc_data = None THEN Some(stamped)
                              ELSE mouser_data]

\* _fetch_part_data, given the answer each fetcher gives when it is called:
\* by_sku for fetch_by_sku(lcsc_sku), by_mpn for fetch_by_mpn(mpn), by_mouser
\* for fetch(mouser_sku)
_fetch_part_data(lcsc_sku, mouser_sku, by_sku, by_mpn, by_mouser) ==
    LET first == IF lcsc_sku # "" THEN by_sku ELSE None
        lcsc_data == IF first = None /\ mouser_sku # "" THEN by_mpn ELSE first
        mouser_data == IF mouser_sku # "" THEN by_mouser ELSE None
    IN  MergePartData(lcsc_data, mouser_data, lcsc_sku, mouser_sku)

(***************************************************************************)
(* Backend helpers.  A helper that makes several backend calls is an       *)
(* operator giving the set of its possible outcomes: each outcome holds    *)
(* the tables as left, the value returned, n (how many calls failed) and   *)
(* calls (the kinds of call issued).                                       *)
(***************************************************************************)
\* str.lower() on the letters
LowerOf ==
    ("A" :> "a") @@ ("B" :> "b") @@ ("C" :> "c") @@ ("D" :> "d") @@ ("E" :> "e")
 @@ ("F" :> "f") @@ ("G" :> "g") @@ ("H" :> "h") @@ ("I" :> "i") @@ ("J" :> "j")
 @@ ("K" :> "k") @@ ("L" :> "l") @@ ("M" :> "m") @@ ("N" :> "n") @@ ("O" :> "o")
 @@ ("P" :> "p") @@ ("Q" :> "q") @@ ("R" :> "r") @@ ("S" :> "s") @@ ("T" :> "t")
 @@ ("U" :> "u") @@ ("V" :> "v") @@ ("W" :> "w") @@ ("X" :> "x") @@ ("Y" :> "y")
 @@ ("Z" :> "z")

RECURSIVE Lower(_)
Lower(s) ==
    IF s = "" THEN ""
    ELSE (IF Char(s, 1) \in DOMAIN LowerOf THEN LowerOf[Char(s, 1)] ELSE Char(s, 1))
         \o Lower(Drop(s, 1))

\* pks of the records of table t that satisfy Test, in list order
Matching(t, Test(_)) == {i \in 1..Len(t) : Test(t[i])}

get_or_create_supplier(comps, pk, nm) ==
    LET found == Matching(comps, LAMBDA c : c.name = nm /\ c.is_supplier)
        created == [name |-> nm, is_supplier |-> TRUE, is_manufacturer |-> FALSE]
        \* the name search and creation, after k failed calls
        byName(k) ==
            {[companies |-> comps, result |-> 0, n |-> k + 1]}
            \cup (IF found # {}
                  THEN {[companies |-> comps, result |-> Least(found), n |-> k]}
                  ELSE {[companies |-> Append(comps, created),
                         result |-> Len(comps) + 1, n |-> k]})
    IN  IF pk <= Len(comps)
        THEN {[companies |-> comps, result |-> pk, n |-> 0]} \cup byName(1)
        ELSE byName(0)

\* get_or_create_manufacturer comparing the names as they are written
get_or_create_manufacturer_exact(comps, nm) ==
    LET found == Matching(comps, LAMBDA c : c.is_manufacturer
                                            /\ c.name = nm)
        created == [name |-> nm, is_supplier |-> FALSE, is_manufacturer |-> TRUE]
    IN  {[companies |-> comps, result |-> 0, n |-> 1, calls |-> {"company_list"}]}
        \cup (IF found # {}
              THEN {[companies |-> comps, result |-> Least(found), n |-> 0,
                     calls |-> {"company_list"}]}
              ELSE {[companies |-> Append(comps, created),
                     result |-> Len(comps) + 1, n |-> 0,
                     calls |-> {"company_list", "company_create"}],
                    [companies |-> comps, result |-> 0, n |-> 1,
                     calls |-> {"company_list", "company_create"}]})

get_or_create_manufacturer(comps, nm) ==
    LET found == Matching(comps, LAMBDA c : c.is_manufacturer
                                            /\ Lower(c.name) = Lower(nm))
        created == [name |-> nm, is_supplier |-> FALSE, is_manufacturer |-> TRUE]
    IN  {[companies |-> comps, result |-> 0, n |-> 1, calls |-> {"company_list"}]}
        \cup (IF found # {}
              THEN {[companies |-> comps, result |-> Least(found), n |-> 0,
                     calls |-> {"company_list"}]}
              ELSE {[companies |-> Append(comps, created),
                     result |-> Len(comps) + 1, n |-> 0,
                     calls |-> {"company_list", "company_create"}],
                    [companies |-> comps, result |-> 0, n |-> 1,
                     calls |-> {"company_list", "company_create"}]})

\* a loop over the quantities that ends at the first create that fails
RECURSIVE AddRowsUntilFailure(_, _, _, _)
AddRowsUntilFailure(sp, qtys, price_breaks, currency) ==
    IF qtys = << >> THEN {[rows |-> << >>, n |-> 0]}
    ELSE LET row == [part |-> sp, quantity |-> Head(qtys),
                     price |-> price_breaks[Head(qtys)],
                     price_currency |-> currency]
             rest == AddRowsUntilFailure(sp, Tail(qtys), price_breaks, currency)
         IN  {[rows |-> <<row>> \o o.rows, n |-> o.n] : o \in rest}
             \cup {[rows |-> << >>, n |-> 1]}

\* _add_price_breaks: one create per quantity, ascending, each of which may fail
RECURSIVE AddRows(_, _, _, _)
AddRows(sp, qtys, price_breaks, currency) ==
    IF qtys = << >> THEN {[rows |-> << >>, n |-> 0]}
    ELSE LET row == [part |-> sp, quantity |-> Head(qtys),
                     price |-> price_breaks[Head(qtys)],
                     price_currency |-> currency]
             rest == AddRows(sp, Tail(qtys), price_breaks, currency)
         IN  {[rows |-> <<row>> \o o.rows, n |-> o.n] : o \in rest}
             \cup {[rows |-> o.rows, n |-> o.n + 1] : o \in rest}

_add_price_breaks(sp, price_breaks, currency) ==
    AddRows(sp, SortedSeq(DOMAIN price_breaks), price_breaks, currency)

\* a loop over the SKUs that gives up at the first failing lookup
RECURSIVE FindExistingInUntilFailure(_, _)
FindExistingInUntilFailure(skus, sps) ==
    IF skus = << >> THEN {[result |-> 0, n |-> 0]}
    ELSE LET sp_list == Matching(sps, LAMBDA sp : sp.SKU = Head(skus))
         IN  {[result |-> 0, n |-> 1]}
             \cup (IF sp_list # {}
                   THEN {[result |-> sps[Least(sp_list)].part, n |-> 0]}
                   ELSE FindExistingInUntilFailure(Tail(skus), sps))

\* the loop of find_existing_part over the non-empty SKUs
RECURSIVE FindExistingIn(_, _)
FindExistingIn(skus, sps) ==
    IF skus = << >> THEN {[result |-> 0, n |-> 0]}
    ELSE LET sp_list == Matching(sps, LAMBDA sp : sp.SKU = Head(skus))
             rest == FindExistingIn(Tail(skus), sps)
             \* the list call (or the fetch of the owning part) failed
             failed == {[result |-> o.result, n |-> o.n + 1] : o \in rest}
         IN  IF sp_list # {}
             THEN {[result |-> sps[Least(sp_list)].part, n |-> 0]} \cup failed
             ELSE rest \cup failed


\* a lookup by SKU that asks for the LCSC SKU only
_find_existing_part_lcsc_only(sps, lcsc_sku, mouser_sku) ==
    FindExistingIn(SelectSeq(<<lcsc_sku>>, LAMBDA s : s # ""), sps)

_find_existing_part(sps, lcsc_sku, mouser_sku) ==
    FindExistingIn(SelectSeq(<<lcsc_sku, mouser_sku>>, LAMBDA s : s # ""), sps)


\* a lookup by name that trusts the search to have matched the name exactly
_find_part_by_name_unfiltered(ps, nm) ==
    IF nm = "" THEN {[result |-> 0, n |-> 0, calls |-> {}]}
    ELSE {[result |-> 0, n |-> k, calls |-> {"part_list"}] : k \in {0, 1}}

_find_part_by_name(ps, nm) ==
    IF nm = "" THEN {[result |-> 0, n |-> 0, calls |-> {}]}
    ELSE LET results == Matching(ps, LAMBDA p : p.name = nm)
         IN  {[result |-> IF results = {} THEN 0 ELSE Least(results), n |-> 0,
               calls |-> {"part_list"}],
              [result |-> 0, n |-> 1, calls |-> {"part_list"}]}

\* a walk that creates every level of the path without searching for it
RECURSIVE WalkCategoryCreating(_, _, _)
WalkCategoryCreating(cats, path, parent) ==
    IF path = << >>
    THEN {[categories |-> cats, result |-> parent, n |-> 0, calls |-> {}]}
    ELSE {[categories |-> cats, result |-> 0, n |-> 1,
           calls |-> {"category_create"}]}
         \cup {[o EXCEPT !.calls = @ \cup {"category_create"}] :
                  o \in WalkCategoryCreating(
                            Append(cats, [name |-> Head(path), parent |-> parent]),
                            Tail(path), Len(cats) + 1)}

\* the loop of get_or_create_category from one level on; parent = 0 is None
RECURSIVE WalkCategory(_, _, _)
WalkCategory(cats, path, parent) ==
    IF path = << >>
    THEN {[categories |-> cats, result |-> parent, n |-> 0, calls |-> {}]}
    ELSE LET found == Matching(cats, LAMBDA c :
                          c.name = Head(path) /\ (parent = 0 \/ c.parent = parent))
             made == [name |-> Head(path), parent |-> parent]
             deeper == IF found # {}
                       THEN WalkCategory(cats, Tail(path), Least(found))
                       ELSE WalkCategory(Append(cats, made), Tail(path), Len(cats) + 1)
             here == IF found # {} THEN {"category_list"}
                     ELSE {"category_list", "category_create"}
         IN  {[categories |-> cats, result |-> 0, n |-> 1,
               calls |-> {"category_list"}]}
             \cup (IF found # {} THEN {}
                   ELSE {[categories |-> cats, result |-> 0, n |-> 1, calls |-> here]})
             \cup {[o EXCEPT !.calls = @ \cup here] : o \in deeper}

get_or_create_category(cats, path_tuple) == WalkCategory(cats, path_tuple, 0)

\* a path that is the family's mapped path, or the fallback, never extended
CategoryPathUnextended(kicad_part, part_data, footprint) ==
    IF kicad_part \in DOMAIN KICAD_CATEGORY_MAP THEN KICAD_CATEGORY_MAP[kicad_part]
    ELSE IF part_data.category_path # << >> THEN part_data.category_path
    ELSE <<"Miscellaneous">>

\* the path resolve_category hands to get_or_create_category
CategoryPath(kicad_part, part_data, footprint) ==
    IF kicad_part \in DOMAIN KICAD_CATEGORY_MAP
    THEN LET path == KICAD_CATEGORY_MAP[kicad_part]
             pkg == IF footprint # "" THEN extract_package(footprint) ELSE ""
         IN  IF kicad_part \in {"C", "C_Small"} /\ pkg # "" THEN Append(path, pkg)
             ELSE IF kicad_part \in {"R", "R_Small", "R_Network", "RN"} /\ pkg # ""
                  THEN Append(path, pkg)
                  ELSE path
    ELSE IF part_data.category_path # << >> THEN part_data.category_path
    ELSE <<"Miscellaneous">>

resolve_category(cats, kicad_part, part_data, footprint) ==
    get_or_create_category(cats, CategoryPath(kicad_part, part_data, footprint))

(***************************************************************************)
(* State.                                                                  *)
(***************************************************************************)
VARIABLES
    \* the backend's tables (a record's pk is its index)
    parts, supplierParts, priceBreaks, categories, companies,
    manufacturerParts, images,
    \* the environment: whether MOUSER_API_KEY is set
    api_key,
    \* ensure_parts_exist: the BOM, the position in the code, the run, the
    \* index of the line in hand, and the locals of the loop body
    bom, pc, run, idx, lcsc_supplier, mouser_supplier,
    part_data, name, category, part, existing_by_name,
    \* bookkeeping of the model: failing calls still allowed (-1: any
    \* number), the calls issued for the line in hand, the parts that owned
    \* a supplier part with one of its SKUs when the line was begun, the
    \* record of the lines done, and the sizes of the tables at the end of
    \* each run
    faults, calls, owners, hist, ended,
    \* the fetch-and-merge harness: inputs and result of one _fetch_part_data
    merge,
    \* the category harness: the calls of resolve_category made so far
    walk,
    \* the naming harness: inputs and result of one generate_part_name
    named,
    \* the backend's BOM items, and the locals of main of bom-export.py
    bomItems, export,
    \* the records another user of the backend has added during the run
    external,
    \* the price harness: one row of PriceBreaks and what MouserFetcher.fetch
    \* makes of it
    price_row,
    \* the search harness: one response to LCSCFetcher.fetch_by_mpn and what
    \* it selects
    search,
    \* the category_map argument of ensure_parts_exist of the inventree_sync
    \* package (None when it is not given)
    category_map

backend == <<parts, supplierParts, priceBreaks, categories, companies,
             manufacturerParts, images>>

locals == <<part_data, name, category, part, existing_by_name>>

vars == <<parts, supplierParts, priceBreaks, categories, companies,
          manufacturerParts, images, api_key, bom, pc, run, idx,
          lcsc_supplier, mouser_supplier, part_data, name, category, part,
          existing_by_name, faults, calls, owners, hist, ended, merge, walk, named, bomItems, export, external, price_row, search, category_map>>

\* main of bom-export.py before it has created anything
NoExport == [pcb |-> 0, assembly |-> 0, stencil |-> 0, related |-> {},
             reason |-> ""]

(***************************************************************************)
(* Initial states: the BOMs and backends the runs start from.              *)
(***************************************************************************)
\* BOM rows to build BOMs from
LinePool ==
    { BomEntry(<<"C1">>, <<"M2">>, "R", "10k", "R_0805_2012Metric", << >>),
      BomEntry(<<"C1">>, <<"595-X1">>, "Crystal", "8MHz / 20pF",
               "Crystal_SMD_3225-4Pin_3.2x2.5mm", << >>),
      BomEntry(<< >>, <<"595-X1">>, "Crystal", "8MHz /20pF",
               "Crystal_SMD_3225-4Pin_3.2x2.5mm", << >>),
      BomEntry(<<"C2">>, << >>, "Crystal", "8MHz/20pF",
               "Crystal_SMD_3225-4Pin_3.2x2.5mm", << >>),
      BomEntry(<<"C7">>, << >>, "IC_Custom", "", "SOT-23", << >>),
      BomEntry(<<"C9", "C1">>, <<"M9">>, "R", "10k", "R_0805_2012Metric", << >>),
      BomEntry(<< >>, << >>, "Mounting_Hole", "M3", "MountingHole_3.2mm", << >>),
      BomEntry(<<"C1">>, << >>, "R", "10k", "R_0805_2012Metric", <<1>>) }

\* sequences over S of length 1..n
RECURSIVE SeqsUpTo(_, _)
SeqsUpTo(S, n) ==
    IF n = 0 THEN {}
    ELSE {<<x>> : x \in S}
         \cup {Append(s, x) : s \in SeqsUpTo(S, n - 1), x \in S}

SupplierCompanies ==
    << [name |-> "YAGEO", is_supplier |-> FALSE, is_manufacturer |-> TRUE],
       [name |-> "Mouser", is_supplier |-> TRUE, is_manufacturer |-> FALSE],
       [name |-> "LCSC", is_supplier |-> TRUE, is_manufacturer |-> FALSE] >>

\* an existing resistor, entered by hand
HandMadePart ==
    [name |-> "R 10k 0805", description |-> "R 10k 0805", category |-> 1,
     link |-> "", created_by |-> "user"]

InitialBackends ==
    { \* a fresh backend
      [parts |-> << >>, supplierParts |-> << >>, categories |-> << >>,
       companies |-> << >>],
      \* the resistor exists under its Mouser SKU
      [parts |-> <<HandMadePart>>,
       supplierParts |-> <<[part |-> 1, supplier |-> 2, SKU |-> "M2"]>>,
       categories |-> <<[name |-> "Resistors", parent |-> 0]>>,
       companies |-> SupplierCompanies],
      \* the resistor exists without any supplier part
      [parts |-> <<HandMadePart>>, supplierParts |-> << >>,
       categories |-> <<[name |-> "Resistors", parent |-> 0]>>,
       companies |-> SupplierCompanies] }

InitAt(position, maps, backends, boms, budget) ==
    /\ \E b \in backends :
        /\ parts = b.parts
        /\ supplierParts = b.supplierParts
        /\ categories = b.categories
        /\ companies = b.companies
    /\ priceBreaks = << >>
    /\ manufacturerParts = << >>
    /\ images = {}
    /\ api_key \in BOOLEAN
    /\ bom \in boms
    /\ \A i \in 1..Len(bom) : \A p \in 1..Len(bom[i].inventree_part) :
           bom[i].inventree_part[p] <= Len(parts)
    /\ pc = position
    /\ category_map \in maps
    /\ run = 1
    /\ idx = 1
    /\ lcsc_supplier = 0
    /\ mouser_supplier = 0
    /\ part_data = None
    /\ name = ""
    /\ category = 0
    /\ part = 0
    /\ existing_by_name = 0
    /\ faults = budget
    /\ calls = {}
    /\ owners = {}
    /\ hist = << >>
    /\ ended = << >>
    /\ merge = None
    /\ walk = << >>
    /\ named = None
    /\ bomItems = << >>
    /\ export = NoExport
    /\ external = 0
    /\ price_row = None
    /\ search = None

\* the state in which part_importer's ensure_parts_exist is called
InitOn(backends, boms, budget) == InitAt("start", {None}, backends, boms, budget)

InitWith(boms, budget) == InitOn(InitialBackends, boms, budget)

Init == InitWith(SeqsUpTo(LinePool, MaxLines), MaxFaults)

\* n more failing calls are allowed
Allowed(n) == faults = -1 \/ n <= faults

Spend(n) == IF faults = -1 THEN -1 ELSE faults - n

\* the names of the calls that failed
FaultTags(n, tag) == IF n > 0 THEN {tag} ELSE {}

\* the line in hand and its two SKUs
Line == bom[idx]

lcsc_sku == FirstSku(Line.lcsc)

mouser_sku == FirstSku(Line.mouser)

\* the loop goes on to the next line (continue, or the end of the body)
\* a line is left with its part appended twice
ContinueAttachTwice(status, attached) ==
    /\ hist' = Append(hist, [run |-> run, line |-> idx, status |-> status,
                             part |-> attached, calls |-> calls',
                             owners |-> owners'])
    /\ idx' = idx + 1
    /\ pc' = "line"
    /\ bom' = IF attached = 0 THEN bom
              ELSE [bom EXCEPT ![idx].inventree_part = Append(Append(@, attached), attached)]
    /\ part_data' = None
    /\ name' = ""
    /\ category' = 0
    /\ part' = 0
    /\ existing_by_name' = 0

Continue(status, attached) ==
    /\ hist' = Append(hist, [run |-> run, line |-> idx, status |-> status,
                             part |-> attached, calls |-> calls',
                             owners |-> owners'])
    /\ idx' = idx + 1
    /\ pc' = "line"
    /\ bom' = IF attached = 0 THEN bom
              ELSE [bom EXCEPT ![idx].inventree_part = Append(@, attached)]
    /\ part_data' = None
    /\ name' = ""
    /\ category' = 0
    /\ part' = 0
    /\ existing_by_name' = 0

\* a start that builds the Mouser fetcher without looking for the key
StartRunWithoutKey ==
    /\ pc = "start"
    /\ \E l \in get_or_create_supplier(companies, 3, "LCSC") :
       \E m \in get_or_create_supplier(l.companies, 2, "Mouser") :
           /\ Allowed(l.n + m.n)
           /\ faults' = Spend(l.n + m.n)
           /\ companies' = m.companies
           /\ lcsc_supplier' = l.result
           /\ mouser_supplier' = m.result
           /\ pc' = "line"
    /\ UNCHANGED <<parts, supplierParts, priceBreaks, categories,
                   manufacturerParts, images, api_key, bom, run, idx, locals,
                   calls, owners, hist, ended, merge, walk, named, bomItems,
                   export, external, price_row, search, category_map>>

(***************************************************************************)
(* ensure_parts_exist, one action per step of the code.                    *)
(***************************************************************************)
\* the fetchers are built and the two supplier companies resolved
StartRun ==
    /\ pc = "start"
    /\ IF ~api_key
       THEN \* MouserFetcher() raises EnvironmentError
            /\ pc' = "crashed"
            /\ UNCHANGED <<companies, lcsc_supplier, mouser_supplier, faults>>
       ELSE \E l \in get_or_create_supplier(companies, 3, "LCSC") :
            \E m \in get_or_create_supplier(l.companies, 2, "Mouser") :
                /\ Allowed(l.n + m.n)
                /\ faults' = Spend(l.n + m.n)
                /\ companies' = m.companies
                /\ lcsc_supplier' = l.result
                /\ mouser_supplier' = m.result
                /\ pc' = "line"
    /\ UNCHANGED <<parts, supplierParts, priceBreaks, categories,
                   manufacturerParts, images, api_key, bom, run, idx, locals,
                   calls, owners, hist, ended, merge, walk, named, bomItems, export, external, price_row, search, category_map>>

\* the for loop is exhausted
EndRun ==
    /\ pc = "line"
    /\ idx > Len(bom)
    /\ pc' = "done"
    /\ ended' = Append(ended, [parts |-> Len(parts),
                               supplierParts |-> Len(supplierParts),
                               priceBreaks |-> Len(priceBreaks),
                               categories |-> Len(categories),
                               companies |-> Len(companies),
                               manufacturerParts |-> Len(manufacturerParts),
                               images |-> Cardinality(images)])
    /\ UNCHANGED <<backend, api_key, bom, run, idx, lcsc_supplier,
                   mouser_supplier, locals, faults, calls, owners, hist, merge, walk, named, bomItems, export, external, price_row, search, category_map>>

\* a line without SKUs, or one that is resolved already, is passed over
SkipLine ==
    /\ pc = "line"
    /\ idx <= Len(bom)
    /\ (Line.lcsc = << >> /\ Line.mouser = << >>) \/ Line.inventree_part # << >>
    /\ calls' = {}
    /\ owners' = {}
    /\ Continue(IF Line.lcsc = << >> /\ Line.mouser = << >>
                THEN "no_skus" ELSE "resolved_before", 0)
    /\ UNCHANGED <<backend, api_key, run, lcsc_supplier, mouser_supplier,
                   faults, ended, merge, walk, named, bomItems, export, external, price_row, search, category_map>>

\* the parts that own a supplier part whose SKU is one of the two given
SkuOwners(sps, a, b) ==
    {sps[i].part : i \in Matching(sps, LAMBDA sp : sp.SKU \in ({a, b} \ {""}))}

\* the lookup by SKU
FindExistingPart ==
    /\ pc = "line"
    /\ idx <= Len(bom)
    /\ ~(Line.lcsc = << >> /\ Line.mouser = << >>)
    /\ Line.inventree_part = << >>
    /\ \E o \in _find_existing_part(supplierParts, lcsc_sku, mouser_sku) :
        /\ Allowed(o.n)
        /\ faults' = Spend(o.n)
        /\ calls' = {"supplier_part_list"} \cup FaultTags(o.n, "sku_lookup_failed")
        /\ owners' = SkuOwners(supplierParts, lcsc_sku, mouser_sku)
        /\ IF o.result # 0
           THEN Continue("sku_match", o.result)
           ELSE /\ pc' = "fetch"
                /\ UNCHANGED <<bom, idx, locals, hist>>
    /\ UNCHANGED <<backend, api_key, run, lcsc_supplier, mouser_supplier, ended, merge, walk, named, bomItems, export, external, price_row, search, category_map>>

\* the catalog calls of _fetch_part_data
FetchCalls == {"fetch_lcsc_sku", "fetch_lcsc_search", "fetch_lcsc_detail",
               "fetch_mouser"}

\* what a catalog service can answer a request with: a well-formed answer,
\* no answer in time, a non-2xx status, a body that is not JSON, a JSON body
\* that is not an object, an object whose result field (result /
\* SearchResults) is null or missing, and an object with a null string
\* field nested in its result
ResponseKinds == {"ok", "timeout", "bad_status", "not_json", "non_object",
                  "null_result", "missing_result", "null_nested"}

\* the request and the decoding are inside try/except in all three fetchers
Caught == {"timeout", "bad_status", "not_json"}

\* LCSCFetcher.fetch_by_sku on a response: the record is parsed ("answer"),
\* None is returned ("none"), or an exception leaves the method ("raise")
LcscDetailOn(kind) ==
    IF kind = "ok" THEN "answer"
    ELSE IF kind \in Caught \cup {"null_result", "missing_result"} THEN "none"
    ELSE "raise"

\* the search request of LCSCFetcher.fetch_by_mpn on a response
LcscSearchOn(kind) ==
    IF kind = "ok" THEN "answer"
    ELSE IF kind \in Caught \cup {"null_result", "missing_result"} THEN "none"
    ELSE "raise"

\* MouserFetcher.fetch on a response
MouserFetchOn(kind) ==
    IF kind = "ok" THEN "answer"
    ELSE IF kind \in Caught \cup {"missing_result"} THEN "none"
    ELSE "raise"

\* what each catalog call of _fetch_part_data can come to, over the responses
FetcherOutcomes(c) ==
    {IF c = "fetch_lcsc_search" THEN LcscSearchOn(kind)
     ELSE IF c = "fetch_mouser" THEN MouserFetchOn(kind)
     ELSE LcscDetailOn(kind) : kind \in ResponseKinds}

\* _fetch_part_data and the test of its result
FetchPartData ==
    /\ pc = "fetch"
    /\ \E on \in [FetchCalls -> {"answer", "none", "raise"}] :
        LET by_sku == IF on["fetch_lcsc_sku"] = "answer"
                      THEN LcscDetail(lcsc_sku) ELSE None
            searched == lcsc_sku = "" \/ by_sku = None
            code == IF on["fetch_lcsc_search"] = "answer"
                    THEN LcscSearch(_strip_mouser_prefix(mouser_sku)) ELSE ""
            by_mpn == IF code # "" /\ on["fetch_lcsc_detail"] = "answer"
                      THEN LcscDetail(code) ELSE None
            by_mouser == IF on["fetch_mouser"] = "answer"
                         THEN MouserSearch(mouser_sku) ELSE None
            \* the calls in the order made, up to the first that raises
            order == (IF lcsc_sku # "" THEN <<"fetch_lcsc_sku">> ELSE << >>)
                     \o (IF searched /\ mouser_sku # ""
                         THEN <<"fetch_lcsc_search">> ELSE << >>)
                     \o (IF searched /\ mouser_sku # "" /\ code # ""
                         THEN <<"fetch_lcsc_detail">> ELSE << >>)
                     \o (IF mouser_sku # "" THEN <<"fetch_mouser">> ELSE << >>)
            raising == {k \in 1..Len(order) : on[order[k]] = "raise"}
            last == IF raising = {} THEN Len(order) ELSE Least(raising)
            made == {order[k] : k \in 1..last}
            failing == {c \in made : on[c] # "answer"}
            from_lcsc == IF lcsc_sku # "" /\ by_sku # None THEN by_sku
                         ELSE IF mouser_sku # "" THEN by_mpn ELSE None
            from_mouser == IF mouser_sku # "" THEN by_mouser ELSE None
            answers == (IF from_lcsc # None THEN {"lcsc_returned"} ELSE {})
                       \cup (IF from_mouser # None THEN {"mouser_returned"} ELSE {})
                       \cup (IF from_lcsc # None /\ DOMAIN from_lcsc[1].price_breaks # {}
                             THEN {"lcsc_priced"} ELSE {})
                       \cup (IF from_mouser # None
                                /\ DOMAIN from_mouser[1].price_breaks # {}
                             THEN {"mouser_priced"} ELSE {})
            got == _fetch_part_data(lcsc_sku, mouser_sku, by_sku, by_mpn, by_mouser)
        IN  /\ \A c \in FetchCalls : on[c] \in FetcherOutcomes(c)
            /\ \A c \in FetchCalls \ made : on[c] = "answer"
            /\ Allowed(Cardinality(failing))
            /\ faults' = Spend(Cardinality(failing))
            /\ owners' = owners
            /\ IF raising # {}
               THEN \* the exception leaves _fetch_part_data and the run
                    /\ calls' = calls \cup made \cup {"malformed_response"}
                    /\ pc' = "crashed"
                    /\ UNCHANGED <<bom, idx, locals, hist>>
               ELSE /\ calls' = calls \cup made \cup answers
                         \cup FaultTags(Cardinality(failing), "fetch_failed")
                    /\ IF got.result = None
                       THEN Continue("no_data", 0)
                       ELSE /\ part_data' = got.result
                            /\ pc' = "name"
                            /\ UNCHANGED <<bom, idx, name, category, part,
                                           existing_by_name, hist>>
    /\ UNCHANGED <<backend, api_key, run, lcsc_supplier, mouser_supplier, ended, merge, walk, named, bomItems, export, external, price_row, search, category_map>>

\* generate_part_name and the lookup by name
FindPartByName ==
    /\ pc = "name"
    /\ name' = generate_part_name(Line.kicad_part, Line.kicad_value,
                                  Line.kicad_footprint)
    /\ \E o \in _find_part_by_name(parts, name') :
        /\ Allowed(o.n)
        /\ faults' = Spend(o.n)
        /\ calls' = calls \cup o.calls \cup FaultTags(o.n, "name_lookup_failed")
        /\ existing_by_name' = o.result
        /\ pc' = IF o.result # 0 THEN "supplement" ELSE "category"
    /\ UNCHANGED <<backend, api_key, bom, run, idx, lcsc_supplier,
                   mouser_supplier, part_data, category, part, owners, hist,
                   ended, merge, walk, named, bomItems, export, external, price_row, search, category_map>>

\* the conditions under which the two supplier links and their price breaks
\* are made in create_part_in_inventree
LcscLinkWanted(pd, supplier) == pd.lcsc_sku # "" /\ supplier # 0

\* a Mouser link that is left out once a supplier part could not be created
MouserLinkWantedAfterLcsc(pd, supplier) ==
    pd.mouser_sku # "" /\ supplier # 0 /\ "supplier_part_failed" \notin calls

MouserLinkWanted(pd, supplier) == pd.mouser_sku # "" /\ supplier # 0

LcscPriced(pd) == DOMAIN pd.price_breaks # {} /\ pd.lcsc_sku # ""


\* the Mouser link priced whenever there are price breaks
MouserPricedAlways(pd) == pd.mouser_sku # "" /\ DOMAIN pd.price_breaks # {}

MouserPriced(pd) ==
    pd.mouser_sku # "" /\ DOMAIN pd.price_breaks # {} /\ pd.lcsc_sku = ""

\* a SupplierPart.create that succeeded, followed by its price breaks when
\* priced: the outcomes, as the rows appended and the number of failed calls
LinkOutcomes(sp, pd, priced) ==
    IF priced THEN _add_price_breaks(sp, pd.price_breaks, pd.currency)
    ELSE {[rows |-> << >>, n |-> 0]}

\* a link mirroring every SKU, whether the part has it or not
MissingSkuAlways(sku, supplier, existing_skus) == sku # "" /\ supplier # 0

\* the test _ensure_supplier_parts makes before it creates a link
MissingSku(sku, supplier, existing_skus) ==
    sku # "" /\ supplier # 0 /\ sku \notin existing_skus

\* _ensure_supplier_parts for the part found by name, and the line is done
EnsureSupplierParts ==
    /\ pc = "supplement"
    /\ LET pd == part_data[1]
           listed == {supplierParts[i].SKU :
                         i \in Matching(supplierParts,
                                        LAMBDA sp : sp.part = existing_by_name)}
       IN  \E list_ok \in BOOLEAN, lcsc_ok \in BOOLEAN, mouser_ok \in BOOLEAN :
           LET existing_skus == IF list_ok THEN listed ELSE {}
               lcsc_try == MissingSku(pd.lcsc_sku, lcsc_supplier, existing_skus)
               mouser_try == MissingSku(pd.mouser_sku, mouser_supplier,
                                        existing_skus)
               lcsc_sp == [part |-> existing_by_name, supplier |-> lcsc_supplier,
                           SKU |-> pd.lcsc_sku]
               mouser_sp == [part |-> existing_by_name,
                             supplier |-> mouser_supplier, SKU |-> pd.mouser_sku]
               sps1 == IF lcsc_try /\ lcsc_ok THEN Append(supplierParts, lcsc_sp)
                       ELSE supplierParts
               n == (IF list_ok THEN 0 ELSE 1) + (IF lcsc_ok THEN 0 ELSE 1)
                    + (IF mouser_ok THEN 0 ELSE 1)
           IN  /\ lcsc_try \/ lcsc_ok
               /\ mouser_try \/ mouser_ok
               /\ \E r \in LinkOutcomes(Len(sps1), pd,
                                        lcsc_try /\ lcsc_ok
                                        /\ DOMAIN pd.price_breaks # {}) :
                   /\ Allowed(n + r.n)
                   /\ faults' = Spend(n + r.n)
                   /\ priceBreaks' = priceBreaks \o r.rows
                   /\ supplierParts' = IF mouser_try /\ mouser_ok
                                       THEN Append(sps1, mouser_sp) ELSE sps1
                   /\ calls' = calls \cup {"supplier_part_list"}
                        \cup (IF lcsc_try \/ mouser_try
                              THEN {"supplier_part_create"} ELSE {})
                        \cup (IF r.rows # << >> \/ r.n > 0
                              THEN {"price_break_create"} ELSE {})
                        \cup FaultTags(IF list_ok THEN 0 ELSE 1,
                                       "supplement_list_failed")
                        \cup FaultTags(n - (IF list_ok THEN 0 ELSE 1),
                                       "supplier_part_failed")
                        \cup FaultTags(r.n, "price_break_failed")
    /\ owners' = owners
    /\ Continue("name_match", existing_by_name)
    /\ UNCHANGED <<parts, categories, companies, manufacturerParts, images,
                   api_key, run, lcsc_supplier, mouser_supplier, ended, merge, walk, named, bomItems, export, external, price_row, search, category_map>>

\* resolve_category
ResolveCategory ==
    /\ pc = "category"
    /\ \E o \in resolve_category(categories, Line.kicad_part, part_data[1],
                                 Line.kicad_footprint) :
        /\ Allowed(o.n)
        /\ faults' = Spend(o.n)
        /\ categories' = o.categories
        /\ category' = o.result
        /\ calls' = calls \cup o.calls
    /\ pc' = "create"
    /\ UNCHANGED <<parts, supplierParts, priceBreaks, companies,
                   manufacturerParts, images, api_key, bom, run, idx,
                   lcsc_supplier, mouser_supplier, part_data, name, part,
                   existing_by_name, owners, hist, ended, merge, walk, named, bomItems, export, external, price_row, search, category_map>>

\* the payload of step 1 of create_part_in_inventree
PartPayload(nm, pd, cat) ==
    [name |-> nm,
     description |-> IF pd.description # "" THEN pd.description ELSE nm,
     category |-> cat, link |-> pd.datasheet_url, created_by |-> "pipeline"]


\* step 1 without the return on failure: the later steps run all the same
CreateBasePartFallsThrough ==
    /\ pc = "create"
    /\ \E ok \in BOOLEAN :
        /\ Allowed(IF ok THEN 0 ELSE 1)
        /\ faults' = Spend(IF ok THEN 0 ELSE 1)
        /\ calls' = calls \cup {"part_create"}
             \cup FaultTags(IF ok THEN 0 ELSE 1, "part_create_failed")
        /\ parts' = IF ok THEN Append(parts, PartPayload(name, part_data[1], category))
                    ELSE parts
        /\ part' = IF ok THEN Len(parts) + 1 ELSE 0
    /\ pc' = "image"
    /\ UNCHANGED <<supplierParts, priceBreaks, categories, companies,
                   manufacturerParts, images, api_key, bom, run, idx,
                   lcsc_supplier, mouser_supplier, part_data, name, category,
                   existing_by_name, owners, hist, ended, merge, walk, named, bomItems, export, external, price_row, search, category_map>>

\* create_part_in_inventree, step 1: the base part
CreateBasePart ==
    /\ pc = "create"
    /\ \E ok \in BOOLEAN :
        /\ Allowed(IF ok THEN 0 ELSE 1)
        /\ faults' = Spend(IF ok THEN 0 ELSE 1)
        /\ calls' = calls \cup {"part_create"}
             \cup FaultTags(IF ok THEN 0 ELSE 1, "part_create_failed")
        /\ owners' = owners
        /\ IF ok
           THEN /\ parts' = Append(parts, PartPayload(name, part_data[1], category))
                /\ part' = Len(parts) + 1
                /\ pc' = "image"
                /\ UNCHANGED <<bom, idx, part_data, name, category,
                               existing_by_name, hist>>
           ELSE /\ parts' = parts
                /\ Continue("create_failed", 0)
    /\ UNCHANGED <<supplierParts, priceBreaks, categories, companies,
                   manufacturerParts, images, api_key, run, lcsc_supplier,
                   mouser_supplier, ended, merge, walk, named, bomItems, export, external, price_row, search, category_map>>

\* step 2: the image is downloaded and attached
UploadImage ==
    /\ pc = "image"
    /\ IF part_data[1].image_url = ""
       THEN UNCHANGED <<images, faults, calls>>
       ELSE \E ok \in BOOLEAN :
            /\ Allowed(IF ok THEN 0 ELSE 1)
            /\ faults' = Spend(IF ok THEN 0 ELSE 1)
            /\ images' = IF ok THEN images \cup {part} ELSE images
            /\ calls' = calls \cup {"image_upload"}
                 \cup FaultTags(IF ok THEN 0 ELSE 1, "image_failed")
    /\ pc' = "manufacturer"
    /\ UNCHANGED <<parts, supplierParts, priceBreaks, categories, companies,
                   manufacturerParts, api_key, bom, run, idx, lcsc_supplier,
                   mouser_supplier, locals, owners, hist, ended, merge, walk, named, bomItems, export, external, price_row, search, category_map>>

\* step 3: the manufacturer and the manufacturer part
CreateManufacturerPart ==
    /\ pc = "manufacturer"
    /\ LET pd == part_data[1]
       IN  IF pd.mpn = "" \/ pd.manufacturer = ""
           THEN UNCHANGED <<companies, manufacturerParts, faults, calls>>
           ELSE \E o \in get_or_create_manufacturer(companies, pd.manufacturer) :
                \E ok \in BOOLEAN :
                    /\ o.result # 0 \/ ok
                    /\ Allowed(o.n + (IF ok THEN 0 ELSE 1))
                    /\ faults' = Spend(o.n + (IF ok THEN 0 ELSE 1))
                    /\ companies' = o.companies
                    /\ manufacturerParts' =
                         IF o.result # 0 /\ ok
                         THEN Append(manufacturerParts,
                                     [part |-> part, manufacturer |-> o.result,
                                      MPN |-> pd.mpn])
                         ELSE manufacturerParts
                    /\ calls' = calls \cup o.calls
                         \cup (IF o.result # 0
                               THEN {"manufacturer_part_create"} ELSE {})
                         \cup FaultTags(o.n + (IF ok THEN 0 ELSE 1),
                                        "manufacturer_failed")
    /\ pc' = "lcsc"
    /\ UNCHANGED <<parts, supplierParts, priceBreaks, categories, images,
                   api_key, bom, run, idx, lcsc_supplier, mouser_supplier,
                   locals, owners, hist, ended, merge, walk, named, bomItems, export, external, price_row, search, category_map>>

\* steps 4 and 5 share their shape: one supplier part, then its price breaks
SupplierPartStep(wanted, supplier, sku, priced, next) ==
    /\ IF ~wanted
       THEN UNCHANGED <<supplierParts, priceBreaks, faults, calls>>
       ELSE \E ok \in BOOLEAN :
            \E r \in LinkOutcomes(Len(supplierParts) + 1, part_data[1],
                                  ok /\ priced) :
                LET n == (IF ok THEN 0 ELSE 1) + r.n
                IN  /\ Allowed(n)
                    /\ faults' = Spend(n)
                    /\ supplierParts' =
                         IF ok
                         THEN Append(supplierParts,
                                     [part |-> part, supplier |-> supplier,
                                      SKU |-> sku])
                         ELSE supplierParts
                    /\ priceBreaks' = priceBreaks \o r.rows
                    /\ calls' = calls \cup {"supplier_part_create"}
                         \cup (IF ok /\ priced THEN {"price_break_create"} ELSE {})
                         \cup FaultTags(n - r.n, "supplier_part_failed")
                         \cup FaultTags(r.n, "price_break_failed")
    /\ pc' = next
    /\ UNCHANGED <<parts, categories, companies, manufacturerParts, images,
                   api_key, bom, run, idx, lcsc_supplier, mouser_supplier,
                   locals, owners, hist, ended, merge, walk, named, bomItems, export, external, price_row, search, category_map>>

\* step 4: the LCSC supplier part
CreateLcscSupplierPart ==
    /\ pc = "lcsc"
    /\ SupplierPartStep(LcscLinkWanted(part_data[1], lcsc_supplier),
                        lcsc_supplier, part_data[1].lcsc_sku,
                        LcscPriced(part_data[1]), "mouser")

\* a step 5 that books the Mouser SKU under the LCSC supplier
CreateMouserSupplierPartAtLcsc ==
    /\ pc = "mouser"
    /\ SupplierPartStep(MouserLinkWanted(part_data[1], mouser_supplier),
                        lcsc_supplier, part_data[1].mouser_sku,
                        MouserPriced(part_data[1]), "return")

\* step 5: the Mouser supplier part
CreateMouserSupplierPart ==
    /\ pc = "mouser"
    /\ SupplierPartStep(MouserLinkWanted(part_data[1], mouser_supplier),
                        mouser_supplier, part_data[1].mouser_sku,
                        MouserPriced(part_data[1]), "return")


\* a creation that gives the part up when one of its later steps failed
AttachPartIfAllWentWell ==
    /\ pc = "return"
    /\ calls' = calls
    /\ owners' = owners
    /\ IF calls \cap {"image_failed", "manufacturer_failed",
                      "supplier_part_failed", "price_break_failed"} = {}
       THEN Continue("created", part)
       ELSE Continue("create_failed", 0)
    /\ UNCHANGED <<backend, api_key, run, lcsc_supplier, mouser_supplier,
                   faults, ended, merge, walk, named, bomItems, export, external, price_row, search, category_map>>

\* create_part_in_inventree returns the part; the line takes it
AttachPart ==
    /\ pc = "return"
    /\ calls' = calls
    /\ owners' = owners
    /\ Continue("created", part)
    /\ UNCHANGED <<backend, api_key, run, lcsc_supplier, mouser_supplier,
                   faults, ended, merge, walk, named, bomItems, export, external, price_row, search, category_map>>

\* the program is run again on the same BOM, loaded afresh
NextRun ==
    /\ pc = "done"
    /\ run < MaxRuns
    /\ run' = run + 1
    /\ idx' = 1
    /\ pc' = "start"
    /\ bom' = [i \in 1..Len(bom) |-> [bom[i] EXCEPT !.inventree_part = << >>]]
    /\ lcsc_supplier' = 0
    /\ mouser_supplier' = 0
    /\ UNCHANGED <<backend, api_key, locals, faults, calls, owners, hist, ended, merge, walk, named, bomItems, export, external, price_row, search, category_map>>

\* one run of ensure_parts_exist
OneRun ==
    \/ StartRun
    \/ EndRun
    \/ SkipLine
    \/ FindExistingPart
    \/ FetchPartData
    \/ FindPartByName
    \/ EnsureSupplierParts
    \/ ResolveCategory
    \/ CreateBasePart
    \/ UploadImage
    \/ CreateManufacturerPart
    \/ CreateLcscSupplierPart
    \/ CreateMouserSupplierPart
    \/ AttachPart

Next ==
    \/ OneRun
    \/ NextRun

Spec == Init /\ [][Next]_vars

\* one run on BOMs of one line, with no limit on the failing calls
InitDeep == InitWith({<<l>> : l \in LinePool}, -1)

SpecDeep == InitDeep /\ [][OneRun]_vars

(***************************************************************************)
(* A run that is terminated between two backend calls, and the complete    *)
(* run made afterwards on the backend it left.                             *)
(***************************************************************************)
\* the rows of the runs that are cut: those of the pool, and two lines that
\* share a Mouser SKU neither catalog knows
RerunPool ==
    LinePool \cup
    { BomEntry(<<"C1">>, <<"M9">>, "R", "10k", "R_0805_2012Metric", << >>),
      BomEntry(<< >>, <<"M9">>, "R", "10k", "R_0805_2012Metric", << >>) }

InitRerun == InitOn(InitialBackends, SeqsUpTo(RerunPool, MaxLines), MaxFaults)

\* the process is killed where it stands: what the backend holds stays
Terminate ==
    /\ run = 1
    /\ pc \notin {"done", "crashed", "terminated"}
    /\ pc' = "terminated"
    /\ ended' = Append(ended, [parts |-> Len(parts),
                               supplierParts |-> Len(supplierParts),
                               priceBreaks |-> Len(priceBreaks),
                               categories |-> Len(categories),
                               companies |-> Len(companies),
                               manufacturerParts |-> Len(manufacturerParts),
                               images |-> Cardinality(images)])
    /\ UNCHANGED <<backend, api_key, bom, run, idx, lcsc_supplier,
                   mouser_supplier, locals, faults, calls, owners, hist, merge,
                   walk, named, bomItems, export, external, price_row, search, category_map>>

\* the program is started again on the same BOM, and no call fails any more
Rerun ==
    /\ pc = "terminated"
    /\ run' = run + 1
    /\ idx' = 1
    /\ pc' = "start"
    /\ bom' = [i \in 1..Len(bom) |-> [bom[i] EXCEPT !.inventree_part = << >>]]
    /\ lcsc_supplier' = 0
    /\ mouser_supplier' = 0
    /\ faults' = 0
    /\ UNCHANGED <<backend, api_key, locals, calls, owners, hist, ended, merge,
                   walk, named, bomItems, export, external, price_row, search, category_map>>

CutAndRerun ==
    \/ OneRun
    \/ Terminate
    \/ Rerun

SpecRerun == InitRerun /\ [][CutAndRerun]_vars

(***************************************************************************)
(* A run on a backend that another user edits at the same time.            *)
(***************************************************************************)
\* records the other user adds while the run goes on
MaxExternal == 1

ExternalPartNames == {"R 10k 0805", "XTAL 8MHz/20pF"}

ExternalCategoryNames == {"Resistors", "Surface Mount", "Miscellaneous"}

ExternalManufacturers == {"YAGEO", "Yageo"}

\* the other user adds a part, a category or a manufacturer company
ExternalEdit ==
    /\ external < MaxExternal
    /\ pc \notin {"done", "crashed"}
    /\ external' = external + 1
    /\ \/ /\ \E nm \in ExternalPartNames :
               parts' = Append(parts, [name |-> nm, description |-> nm,
                                       category |-> 0, link |-> "",
                                       created_by |-> "external"])
          /\ UNCHANGED <<categories, companies>>
       \/ /\ \E nm \in ExternalCategoryNames : \E parent \in 0..Len(categories) :
               /\ \A c \in 1..Len(categories) :
                      ~(categories[c].name = nm /\ categories[c].parent = parent)
               /\ categories' = Append(categories, [name |-> nm, parent |-> parent])
          /\ UNCHANGED <<parts, companies>>
       \/ /\ \E nm \in ExternalManufacturers :
               /\ \A c \in 1..Len(companies) : companies[c].name # nm
               /\ companies' = Append(companies,
                                      [name |-> nm, is_supplier |-> FALSE,
                                       is_manufacturer |-> TRUE])
          /\ UNCHANGED <<parts, categories>>
    /\ UNCHANGED <<supplierParts, priceBreaks, manufacturerParts, images,
                   api_key, bom, pc, run, idx, lcsc_supplier, mouser_supplier,
                   locals, faults, calls, owners, hist, ended, merge, walk,
                   named, bomItems, export, price_row, search, category_map>>

InitShared == InitWith({<<l>> : l \in LinePool}, MaxFaults)

SharedRun ==
    \/ OneRun
    \/ ExternalEdit

SpecShared == InitShared /\ [][SharedRun]_vars

(***************************************************************************)
(* main of bom-export.py: ensure_parts_exist, then the matching of the     *)
(* lines, the PCB, assembly and stencil parts and the BOM items.           *)
(***************************************************************************)
PCB_CATEGORY_NAME == "Printed-Circuit Boards"

ASSEMBLY_CATEGORY_NAME == "PCBA"

STENCIL_CATEGORY_NAME == "SMT Stencil"

ExportCategoryNames ==
    <<PCB_CATEGORY_NAME, ASSEMBLY_CATEGORY_NAME, STENCIL_CATEGORY_NAME>>

Greatest(S) == CHOOSE i \in S : \A j \in S : j <= i

\* resolve_category of bom-export.py: the first category of that name, at
\* any depth; 0 when there is none (the program exits)
NamedCategory(cats, nm) ==
    LET matches == {i \in 1..Len(cats) : cats[i].name = nm}
    IN  IF matches = {} THEN 0 ELSE Least(matches)

\* sku_to_part: the part of the last listed supplier part with that SKU
SkuToPart(sps, sku) ==
    LET with == {i \in 1..Len(sps) : sps[i].SKU = sku}
    IN  IF with = {} THEN 0 ELSE sps[Greatest(with)].part

\* the part match_supplier_parts finds for an entry: that of the first of
\* its SKUs, LCSC before Mouser, that a supplier part carries
RECURSIVE FirstKnown(_, _)
FirstKnown(sps, skus) ==
    IF skus = << >> THEN 0
    ELSE IF SkuToPart(sps, Head(skus)) # 0 THEN SkuToPart(sps, Head(skus))
    ELSE FirstKnown(sps, Tail(skus))

\* the entries after the loop of match_supplier_parts
Matched(entries, sps) ==
    [i \in 1..Len(entries) |->
        IF entries[i].inventree_part # << >> THEN entries[i]
        ELSE LET p == FirstKnown(sps, entries[i].lcsc \o entries[i].mouser)
             IN  IF p = 0 THEN entries[i]
                 ELSE [entries[i] EXCEPT !.inventree_part = <<p>>]]

\* the entries with an SKU and no part
Missing(entries) ==
    {i \in 1..Len(entries) :
        /\ entries[i].inventree_part = << >>
        /\ entries[i].lcsc # << >> \/ entries[i].mouser # << >>}

\* a matching that lets the run go on with entries still missing
MatchSupplierPartsLenient ==
    /\ pc = "done"
    /\ \E ok \in BOOLEAN :
        /\ Allowed(IF ok THEN 0 ELSE 1)
        /\ faults' = Spend(IF ok THEN 0 ELSE 1)
        /\ IF ~ok
           THEN /\ pc' = "crashed"
                /\ export' = [export EXCEPT !.reason = "list_failed"]
                /\ bom' = bom
           ELSE /\ bom' = Matched(bom, supplierParts)
                /\ pc' = "categories"
                /\ export' = export
    /\ UNCHANGED <<backend, api_key, run, idx, lcsc_supplier, mouser_supplier,
                   locals, calls, owners, hist, ended, merge, walk, named,
                   bomItems, external, price_row, search, category_map>>

\* match_supplier_parts: the list of all supplier parts (and the fetch of
\* their parts) can fail; entries still missing end the program
MatchSupplierParts ==
    /\ pc = "done"
    /\ \E ok \in BOOLEAN :
        /\ Allowed(IF ok THEN 0 ELSE 1)
        /\ faults' = Spend(IF ok THEN 0 ELSE 1)
        /\ IF ~ok
           THEN /\ pc' = "crashed"
                /\ export' = [export EXCEPT !.reason = "list_failed"]
                /\ bom' = bom
           ELSE /\ bom' = Matched(bom, supplierParts)
                /\ IF Missing(bom') # {}
                   THEN /\ pc' = "exited"
                        /\ export' = [export EXCEPT !.reason = "missing_parts"]
                   ELSE /\ pc' = "categories"
                        /\ export' = export
    /\ UNCHANGED <<backend, api_key, run, idx, lcsc_supplier, mouser_supplier,
                   locals, calls, owners, hist, ended, merge, walk, named,
                   bomItems, external, price_row, search, category_map>>

\* the three calls of resolve_category in main
ResolveExportCategories ==
    /\ pc = "categories"
    /\ \E n \in 0..1 :
        /\ Allowed(n)
        /\ faults' = Spend(n)
        /\ LET found == [k \in 1..3 |-> NamedCategory(categories,
                                                      ExportCategoryNames[k])]
           IN  IF n > 0
               THEN /\ pc' = "crashed"
                    /\ export' = [export EXCEPT !.reason = "list_failed"]
               ELSE IF \E k \in 1..3 : found[k] = 0
               THEN /\ pc' = "exited"
                    /\ export' = [export EXCEPT !.reason = "category_missing"]
               ELSE /\ pc' = "pcb"
                    /\ export' = export
    /\ UNCHANGED <<backend, api_key, bom, run, idx, lcsc_supplier,
                   mouser_supplier, locals, calls, owners, hist, ended, merge,
                   walk, named, bomItems, external, price_row, search, category_map>>

\* the payloads of create_pcb_part, create_assembly_part, create_stencil_part
ExportPart(suffix, cat_name) ==
    [name |-> "Module " \o suffix, description |-> "",
     category |-> NamedCategory(categories, cat_name), link |-> "",
     created_by |-> "bom_export"]

\* Part.create followed by the asserted image upload (with_image) of one of
\* the three parts; position next follows when both succeed
CreateExportPart(at, field, payload, with_image, next) ==
    /\ pc = at
    /\ \E outcome \in {"ok", "create_failed"}
                      \cup (IF with_image THEN {"image_failed"} ELSE {}) :
        LET n == IF outcome = "ok" THEN 0 ELSE 1
        IN  /\ Allowed(n)
            /\ faults' = Spend(n)
            /\ parts' = IF outcome = "create_failed" THEN parts
                        ELSE Append(parts, payload)
            /\ images' = IF outcome = "ok" /\ with_image
                         THEN images \cup {Len(parts) + 1} ELSE images
            /\ IF outcome = "ok"
               THEN /\ pc' = next
                    /\ export' = [export EXCEPT ![field] = Len(parts) + 1]
               ELSE /\ pc' = "crashed"
                    /\ export' = [export EXCEPT !.reason = outcome]
    /\ UNCHANGED <<supplierParts, priceBreaks, categories, companies,
                   manufacturerParts, api_key, bom, run, idx, lcsc_supplier,
                   mouser_supplier, locals, calls, owners, hist, ended, merge,
                   walk, named, bomItems, external, price_row, search, category_map>>

CreatePcbPart ==
    CreateExportPart("pcb", "pcb", ExportPart("PCB", PCB_CATEGORY_NAME),
                     TRUE, "assembly")

CreateAssemblyPart ==
    CreateExportPart("assembly", "assembly",
                     ExportPart("Module", ASSEMBLY_CATEGORY_NAME), TRUE, "stencil")

\* the stencil image is optional
CreateStencilPart ==
    \E with_image \in BOOLEAN :
        CreateExportPart("stencil", "stencil",
                         ExportPart("SMT Stencil", STENCIL_CATEGORY_NAME),
                         with_image, "related")

\* PartRelated.add_related(api, pcb, stencil)
AddRelated ==
    /\ pc = "related"
    /\ \E ok \in BOOLEAN :
        /\ Allowed(IF ok THEN 0 ELSE 1)
        /\ faults' = Spend(IF ok THEN 0 ELSE 1)
        /\ IF ok
           THEN /\ pc' = "bom"
                /\ export' = [export EXCEPT
                                 !.related = {<<export.pcb, export.stencil>>}]
           ELSE /\ pc' = "crashed"
                /\ export' = [export EXCEPT !.reason = "related_failed"]
    /\ UNCHANGED <<backend, api_key, bom, run, idx, lcsc_supplier,
                   mouser_supplier, locals, calls, owners, hist, ended, merge,
                   walk, named, bomItems, external, price_row, search, category_map>>

\* the BOM items of entries i.. in the order populate_bom creates them
RECURSIVE EntryItems(_, _)
EntryItems(entries, i) ==
    IF i > Len(entries) THEN << >>
    ELSE [k \in 1..Len(entries[i].inventree_part) |->
             [part |-> export.assembly, sub_part |-> entries[i].inventree_part[k],
              line |-> i]]
         \o EntryItems(entries, i + 1)

\* populate_bom: one item for the PCB, one per part of every entry; a
\* failing create ends the program with the items before it in place
PopulateBom ==
    /\ pc = "bom"
    /\ LET items == <<[part |-> export.assembly, sub_part |-> export.pcb,
                       line |-> 0]>> \o EntryItems(bom, 1)
       IN  \E k \in 0..Len(items) :
            LET n == IF k = Len(items) THEN 0 ELSE 1
            IN  /\ Allowed(n)
                /\ faults' = Spend(n)
                /\ bomItems' = bomItems \o SubSeq(items, 1, k)
                /\ IF n = 0
                   THEN pc' = "finished" /\ export' = export
                   ELSE /\ pc' = "crashed"
                        /\ export' = [export EXCEPT !.reason = "bom_item_failed"]
    /\ UNCHANGED <<backend, api_key, bom, run, idx, lcsc_supplier,
                   mouser_supplier, locals, calls, owners, hist, ended, merge,
                   walk, named, external, price_row, search, category_map>>

\* the backends main runs on: those of the pipeline with the three
\* categories of the export in place, and a fresh one without them
ExportCategories ==
    [k \in 1..3 |-> [name |-> ExportCategoryNames[k], parent |-> 0]]

ExportBackends ==
    {[b EXCEPT !.categories = @ \o ExportCategories] : b \in InitialBackends}
    \cup {[parts |-> << >>, supplierParts |-> << >>, categories |-> << >>,
           companies |-> << >>]}

InitMain == InitOn(ExportBackends, SeqsUpTo(LinePool, MaxLines), MaxFaults)

Main ==
    \/ OneRun
    \/ MatchSupplierParts
    \/ ResolveExportCategories
    \/ CreatePcbPart
    \/ CreateAssemblyPart
    \/ CreateStencilPart
    \/ AddRelated
    \/ PopulateBom

SpecMain == InitMain /\ [][Main]_vars

(***************************************************************************)
(* _fetch_part_data on its own: the SKUs and the fetchers' answers are     *)
(* drawn over the combinations of empty and filled fields.                 *)
(***************************************************************************)
\* the records LCSCFetcher can answer with: _parse stamps the product code
\* and leaves category_path empty and the currency at its default
LcscAnswers(code) ==
    {[PartData EXCEPT !.mpn = "L-MPN", !.manufacturer = "L-MFR",
                      !.package = "L-PKG", !.parameters = ("k" :> "l"),
                      !.supplier_link = "lcsc/link", !.lcsc_sku = code,
                      !.image_url = i, !.datasheet_url = d, !.description = t,
                      !.price_breaks = p] :
        i \in {"", "lcsc/img"}, d \in {"", "lcsc/pdf"}, t \in {"", "lcsc text"},
        p \in {<< >>, (10 :> 5)}}

\* the records MouserFetcher can answer with
MouserAnswers(sku) ==
    {[PartData EXCEPT !.mpn = "M-MPN", !.manufacturer = "M-MFR",
                      !.category_path = <<"M-CAT">>,
                      !.supplier_link = "mouser/link", !.mouser_sku = sku,
                      !.image_url = i, !.datasheet_url = d, !.description = t,
                      !.price_breaks = p[1], !.currency = p[2]] :
        i \in {"", "mouser/img"}, d \in {"", "mouser/pdf"},
        t \in {"", "mouser text"},
        p \in {<<<< >>, "EUR">>, <<(1 :> 12), "USD">>}}

Optional(S) == {None} \cup {Some(v) : v \in S}

\* the inputs of one call: by_mpn is drawn only when fetch_by_mpn is reached
MergeInputs ==
    {[lcsc_sku |-> a, mouser_sku |-> b, by_sku |-> x, by_mpn |-> y,
      by_mouser |-> z, done |-> FALSE, out |-> None] :
        a \in {"", "C1"}, b \in {"", "595-X1"},
        x \in Optional(LcscAnswers("C1")), y \in Optional(LcscAnswers("C7")),
        z \in Optional(MouserAnswers("595-X1"))}

InitMerge ==
    /\ merge \in {Some(m) : m \in {i \in MergeInputs :
           /\ i.lcsc_sku = "" => i.by_sku = None
           /\ i.mouser_sku = "" => i.by_mpn = None /\ i.by_mouser = None
           /\ i.by_sku # None => i.by_mpn = None}}
    /\ parts = << >>
    /\ supplierParts = << >>
    /\ priceBreaks = << >>
    /\ categories = << >>
    /\ companies = << >>
    /\ manufacturerParts = << >>
    /\ images = {}
    /\ api_key = TRUE
    /\ bom = << >>
    /\ pc = "merge"
    /\ run = 1
    /\ idx = 1
    /\ lcsc_supplier = 0
    /\ mouser_supplier = 0
    /\ part_data = None
    /\ name = ""
    /\ category = 0
    /\ part = 0
    /\ existing_by_name = 0
    /\ faults = 0
    /\ calls = {}
    /\ owners = {}
    /\ hist = << >>
    /\ ended = << >>
    /\ walk = << >>
    /\ named = None
    /\ bomItems = << >>
    /\ export = NoExport
    /\ external = 0
    /\ price_row = None
    /\ search = None
    /\ category_map = None

\* one call of _fetch_part_data
FetchAndMerge ==
    /\ pc = "merge"
    /\ ~merge[1].done
    /\ merge' = Some([merge[1] EXCEPT
                        !.done = TRUE,
                        !.out = _fetch_part_data(merge[1].lcsc_sku,
                                                 merge[1].mouser_sku,
                                                 merge[1].by_sku,
                                                 merge[1].by_mpn,
                                                 merge[1].by_mouser)])
    /\ UNCHANGED <<backend, api_key, bom, pc, run, idx, lcsc_supplier,
                   mouser_supplier, locals, faults, calls, owners, hist, ended,
                   walk, named, bomItems, export, external, price_row, search, category_map>>

SpecMerge == InitMerge /\ [][FetchAndMerge]_vars

(***************************************************************************)
(* resolve_category on its own: calls with drawn families, footprints and  *)
(* supplier paths, one after the other, on drawn category trees.           *)
(***************************************************************************)
\* calls of resolve_category made one after the other on one backend
MaxCalls == 2

\* the variables of ensure_parts_exist, at rest while a helper is exercised
AtRest(position) ==
    /\ parts = << >>
    /\ supplierParts = << >>
    /\ priceBreaks = << >>
    /\ companies = << >>
    /\ manufacturerParts = << >>
    /\ images = {}
    /\ api_key = TRUE
    /\ bom = << >>
    /\ pc = position
    /\ run = 1
    /\ idx = 1
    /\ lcsc_supplier = 0
    /\ mouser_supplier = 0
    /\ part_data = None
    /\ name = ""
    /\ category = 0
    /\ part = 0
    /\ existing_by_name = 0
    /\ calls = {}
    /\ owners = {}
    /\ hist = << >>
    /\ ended = << >>
    /\ bomItems = << >>
    /\ export = NoExport
    /\ external = 0
    /\ category_map = None

\* category trees a backend can hold before the pipeline's first call
CategoryTrees ==
    {<< >>,
     <<[name |-> "Miscellaneous", parent |-> 0]>>,
     <<[name |-> "Capacitors", parent |-> 0],
       [name |-> "Ceramic", parent |-> 1]>>,
     <<[name |-> "Passives", parent |-> 0],
       [name |-> "Capacitors", parent |-> 1]>>,
     <<[name |-> "Passives", parent |-> 0],
       [name |-> "Resistors", parent |-> 1],
       [name |-> "Miscellaneous", parent |-> 1]>>}

\* the arguments of resolve_category: family, footprint, supplier path
CategoryInputs ==
    [kicad_part : {"C", "R_Small", "Crystal", "IC_Custom"},
     footprint : {"", "C_0805_2012Metric", "_x"},
     category_path : {<< >>, <<"Ceramic">>}]

InitCategory ==
    /\ AtRest("category")
    /\ categories \in CategoryTrees
    /\ faults = MaxFaults
    /\ merge = None
    /\ named = None
    /\ walk = << >>
    /\ price_row = None
    /\ search = None

\* the levels of the log records one call of resolve_category emits: an
\* error for the list or create call that failed, an info for each category
\* created
LogLevels(failed, created) ==
    (IF failed > 0 THEN {"error"} ELSE {}) \cup (IF created > 0 THEN {"info"} ELSE {})

\* one call of resolve_category
CallResolveCategory ==
    /\ pc = "category"
    /\ Len(walk) < MaxCalls
    /\ \E arg \in CategoryInputs :
         LET data == [PartData EXCEPT !.category_path = arg.category_path]
         IN  \E o \in resolve_category(categories, arg.kicad_part, data,
                                       arg.footprint) :
                /\ Allowed(o.n)
                /\ faults' = Spend(o.n)
                /\ categories' = o.categories
                /\ category' = o.result
                /\ walk' = Append(walk,
                       [kicad_part |-> arg.kicad_part,
                        footprint |-> arg.footprint,
                        category_path |-> arg.category_path,
                        path |-> CategoryPath(arg.kicad_part, data, arg.footprint),
                        before |-> Len(categories),
                        after |-> Len(o.categories),
                        failed |-> o.n,
                        logged |-> LogLevels(o.n, Len(o.categories) - Len(categories)),
                        result |-> o.result])
    /\ UNCHANGED <<parts, supplierParts, priceBreaks, companies,
                   manufacturerParts, images, api_key, bom, pc, run, idx,
                   lcsc_supplier, mouser_supplier, part_data, name, part,
                   existing_by_name, calls, owners, hist, ended, merge, named, bomItems, export, external, price_row, search, category_map>>

SpecCategory == InitCategory /\ [][CallResolveCategory]_vars

(***************************************************************************)
(* Properties of the merge.                                                *)
(***************************************************************************)
\* what the LCSC fetcher handed to the merge in the call drawn
MergeLcsc ==
    IF merge[1].lcsc_sku # "" /\ merge[1].by_sku # None THEN merge[1].by_sku
    ELSE IF merge[1].mouser_sku # "" THEN merge[1].by_mpn
    ELSE None

\* what the Mouser fetcher handed to the merge in the call drawn
MergeMouser == IF merge[1].mouser_sku # "" THEN merge[1].by_mouser ELSE None

MergeDone == merge # None /\ merge[1].done

\* a record with its two SKU fields blanked
WithoutSkus(r) == [r EXCEPT !.lcsc_sku = "", !.mouser_sku = ""]

\* C4: when both suppliers return a record, the merged record takes image,
\* datasheet, description and the (price breaks, currency) pair from LCSC
\* where LCSC has them and from Mouser where LCSC's is empty, and takes
\* every other field from LCSC whatever the Mouser record holds.
C4_MergePriority ==
    (MergeDone /\ MergeLcsc # None /\ MergeMouser # None) =>
        LET l == MergeLcsc[1]
            m == MergeMouser[1]
            r == merge[1].out.result[1]
        IN  /\ r.image_url = (IF l.image_url # "" THEN l.image_url ELSE m.image_url)
            /\ r.datasheet_url = (IF l.datasheet_url # "" THEN l.datasheet_url
                                  ELSE m.datasheet_url)
            /\ r.description = (IF l.description # "" THEN l.description
                                ELSE m.description)
            /\ <<r.price_breaks, r.currency>> =
                 (IF DOMAIN l.price_breaks # {} THEN <<l.price_breaks, l.currency>>
                  ELSE <<m.price_breaks, m.currency>>)
            /\ r.mpn = l.mpn
            /\ r.manufacturer = l.manufacturer
            /\ r.category_path = l.category_path
            /\ r.package = l.package
            /\ r.parameters = l.parameters
            /\ r.supplier_link = l.supplier_link

\* both returned a record; LCSC lacks the image and has prices, Mouser has both
C4_Witness ==
    /\ MergeDone /\ MergeLcsc # None /\ MergeMouser # None
    /\ MergeLcsc[1].image_url = "" /\ MergeMouser[1].image_url # ""
    /\ DOMAIN MergeLcsc[1].price_breaks # {}
    /\ DOMAIN MergeMouser[1].price_breaks # {}
    /\ merge[1].out.result[1].image_url = MergeMouser[1].image_url
    /\ merge[1].out.result[1].currency = "EUR"

\* C5: when exactly one supplier returns a record, the result equals that
\* record on every field but the two SKUs, which are the input SKUs.
C5_SingleSource ==
    (MergeDone /\ (MergeLcsc = None) # (MergeMouser = None)) =>
        LET only == IF MergeLcsc # None THEN MergeLcsc[1] ELSE MergeMouser[1]
            out == merge[1].out.result
        IN  /\ out # None
            /\ WithoutSkus(out[1]) = WithoutSkus(only)
            /\ out[1].lcsc_sku = merge[1].lcsc_sku
            /\ out[1].mouser_sku = merge[1].mouser_sku

\* only the search by part number answered: its product code is overwritten
C5_Witness ==
    /\ MergeDone /\ MergeLcsc # None /\ MergeMouser = None
    /\ merge[1].lcsc_sku = "" /\ MergeLcsc[1].lcsc_sku = "C7"
    /\ merge[1].out.result[1].lcsc_sku = ""
    /\ merge[1].out.result[1].mouser_sku = "595-X1"

(***************************************************************************)
(* Properties of the runs.                                                 *)
(***************************************************************************)
\* the calls that create or upload something for a line
CreateCalls == {"category_create", "part_create", "image_upload",
                "company_create", "manufacturer_part_create",
                "supplier_part_create", "price_break_create"}

\* the calls create_part_in_inventree makes after the base part
LaterCalls == {"image_upload", "company_list", "company_create",
               "manufacturer_part_create", "supplier_part_create",
               "price_break_create"}

Entries == 1..Len(hist)

\* run r went through every line of the BOM
WentThrough(r) == {hist[i].line : i \in {j \in Entries : hist[j].run = r}}
                      = 1..Len(bom)

\* a run stops early only where the fetchers cannot be built or a catalog
\* answers with JSON of a shape the fetcher does not expect
NoAbort == /\ pc = "crashed" => \/ ~api_key /\ hist = << >>
                                \/ "malformed_response" \in calls
           /\ \A r \in 1..Len(ended) : WentThrough(r)

\* the line of entry i was fetched for and neither supplier returned a record
NeitherReturned(i) ==
    /\ hist[i].calls \cap FetchCalls # {}
    /\ hist[i].calls \cap {"lcsc_returned", "mouser_returned"} = {}

\* C6: when neither supplier returns a record for a line, no create call is
\* made for it, nothing is attached to it, it is reported as without data,
\* and the run goes on through the remaining lines.
C6_NoDataNoCreate ==
    /\ \A i \in Entries :
           NeitherReturned(i) =>
               /\ hist[i].status = "no_data"
               /\ hist[i].calls \cap CreateCalls = {}
               /\ hist[i].part = 0
               /\ hist[i].run = run => bom[hist[i].line].inventree_part = << >>
    /\ NoAbort

\* a line without data was followed by a line for which a part was created
C6_Witness ==
    \E i, j \in Entries :
        /\ NeitherReturned(i) /\ hist[i].status = "no_data"
        /\ hist[j].run = hist[i].run /\ hist[j].line = hist[i].line + 1
        /\ hist[j].status = "created"

\* C9: when the creation of the base part fails, none of the later calls is
\* made for the line, nothing is attached to it, and the run goes on through
\* the remaining lines.
C9_CreateFailureStops ==
    /\ \A i \in Entries :
           "part_create_failed" \in hist[i].calls =>
               /\ hist[i].status = "create_failed"
               /\ hist[i].calls \cap LaterCalls = {}
               /\ hist[i].part = 0
               /\ hist[i].run = run => bom[hist[i].line].inventree_part = << >>
    /\ pc \in {"image", "manufacturer", "lcsc", "mouser", "return"} =>
           "part_create_failed" \notin calls /\ part \in 1..Len(parts)
    /\ NoAbort

\* a line whose base part failed was followed by a line that was resolved
C9_Witness ==
    \E i, j \in Entries :
        /\ "part_create_failed" \in hist[i].calls
        /\ hist[i].status = "create_failed"
        /\ hist[j].run = hist[i].run /\ hist[j].line = hist[i].line + 1
        /\ hist[j].part # 0

\* the line of entry i had, when it was begun, a supplier part with one of
\* its two SKUs
SkuKnown(i) == hist[i].owners # {}

\* entry i was resolved by the SKU alone: no fetch, no lookup by name, no
\* creation, and the part attached owns a supplier part with one of the SKUs
ShortCircuited(i) ==
    /\ hist[i].status = "sku_match"
    /\ hist[i].part \in hist[i].owners
    /\ hist[i].calls \cap (FetchCalls \cup CreateCalls \cup {"part_list"}) = {}

\* C3 (as stated): when the backend holds a supplier part with the line's
\* first LCSC SKU or first Mouser SKU, no fetcher is called, no part is
\* created, and the part owning that record is attached.
C3_SkuShortCircuit == \A i \in Entries : SkuKnown(i) => ShortCircuited(i)

\* C3 (amended): the same, provided no call of the line's lookup by SKU
\* failed; a failed lookup counts as a miss and the line is fetched for.
C3_SkuShortCircuitUnlessLookupFails ==
    \A i \in Entries :
        (SkuKnown(i) /\ "sku_lookup_failed" \notin hist[i].calls) =>
            ShortCircuited(i)

\* a line whose LCSC SKU is unknown was resolved by its Mouser SKU
C3_Witness ==
    \E i \in Entries :
        /\ SkuKnown(i) /\ ShortCircuited(i)
        /\ "sku_lookup_failed" \notin hist[i].calls
        /\ FirstSku(bom[hist[i].line].lcsc) # ""
        /\ \A k \in 1..Len(supplierParts) :
               supplierParts[k].SKU # FirstSku(bom[hist[i].line].lcsc)

\* the parts the pipeline created
PipelineParts == {p \in 1..Len(parts) : parts[p].created_by = "pipeline"}

\* the lookup by name made before part q was created failed
NameLookupFailedFor(q) ==
    \/ part = q /\ "name_lookup_failed" \in calls
    \/ \E i \in Entries : /\ hist[i].part = q /\ hist[i].status = "created"
                          /\ "name_lookup_failed" \in hist[i].calls

\* C2 (as stated): no two parts created by the pipeline have the same name,
\* whatever the outcomes of the calls.
C2_UniqueNames ==
    \A p, q \in PipelineParts : p # q => parts[p].name # parts[q].name

\* C2 (amended): two parts created by the pipeline have the same name only
\* when that name is empty (no lookup by name is made for it) or the lookup
\* by name made before the later one failed (it counts as a miss).
C2_UniqueNamesUnlessLookupFails ==
    \A p, q \in PipelineParts :
        (p < q /\ parts[p].name = parts[q].name) =>
            parts[q].name = "" \/ NameLookupFailedFor(q)

\* a line was resolved by name to a part the pipeline had created
C2_Witness ==
    \E i \in Entries :
        /\ hist[i].status = "name_match"
        /\ hist[i].part \in PipelineParts
        /\ parts[hist[i].part].name # ""
        /\ Cardinality({p \in PipelineParts :
                           parts[p].name = parts[hist[i].part].name}) = 1

\* the line in hand has fetched data
Fetched == pc \in {"name", "supplement", "category", "create", "image",
                   "manufacturer", "lcsc", "mouser", "return"}

\* the merged record of the line in hand carries the line's SKUs
Stamped == Fetched => /\ part_data # None
                      /\ part_data[1].lcsc_sku = lcsc_sku
                      /\ part_data[1].mouser_sku = mouser_sku

\* part p has a supplier part with the SKU (nothing is asked for no SKU)
LinkedTo(p, sku) ==
    sku = "" \/ \E k \in 1..Len(supplierParts) :
                    supplierParts[k].part = p /\ supplierParts[k].SKU = sku

\* what the lookup by SKU answers for the SKU alone when its calls succeed
LookupAlone(sku) ==
    (CHOOSE o \in _find_existing_part(supplierParts, sku, "") : o.n = 0).result

\* entry i created a part and both of its supplier links were made
CreatedWithLinks(i) ==
    /\ hist[i].status = "created"
    /\ LinkedTo(hist[i].part, FirstSku(bom[hist[i].line].lcsc))
    /\ LinkedTo(hist[i].part, FirstSku(bom[hist[i].line].mouser))

\* a lookup by either SKU of the line of entry i gives the part of entry i
ResolvesTo(i) ==
    \A sku \in {FirstSku(bom[hist[i].line].lcsc),
                FirstSku(bom[hist[i].line].mouser)} \ {""} :
        LookupAlone(sku) = hist[i].part

\* C7 (as stated): the merged record carries the input SKUs whatever the
\* fetchers returned, so that once a part is created with both supplier
\* links, a later lookup by either SKU alone finds that part.
C7_SkusResolve ==
    /\ Stamped
    /\ \A i \in Entries : CreatedWithLinks(i) => ResolvesTo(i)

\* C7 (amended): the merged record carries the input SKUs; a later lookup
\* by either SKU alone finds the created part provided the line's own lookup
\* by SKU did not fail before the part was created.
C7_SkusResolveUnlessLookupFailed ==
    /\ Stamped
    /\ \A i \in Entries :
           (CreatedWithLinks(i) /\ "sku_lookup_failed" \notin hist[i].calls) =>
               ResolvesTo(i)

\* a part was created from the search by part number, whose record named
\* another product code, and a line with both SKUs resolves to its part
C7_Witness ==
    /\ \E i \in Entries :
           /\ CreatedWithLinks(i) /\ ResolvesTo(i)
           /\ FirstSku(bom[hist[i].line].lcsc) # ""
           /\ FirstSku(bom[hist[i].line].mouser) # ""
    /\ \E i \in Entries :
           /\ CreatedWithLinks(i) /\ ResolvesTo(i)
           /\ "fetch_lcsc_detail" \in hist[i].calls
           /\ "lcsc_returned" \in hist[i].calls
           /\ FirstSku(bom[hist[i].line].lcsc) = ""

\* the entry of run r for line k
EntryOf(r, k) == CHOOSE i \in Entries : hist[i].run = r /\ hist[i].line = k

\* two runs are over, no call has failed, and the BOM came with no line
\* resolved beforehand
TwoCleanRuns ==
    /\ pc = "done" /\ run = 2 /\ Len(ended) = 2
    /\ faults = MaxFaults
    /\ \A i \in Entries : hist[i].status # "resolved_before"

\* the second run created nothing
SecondRunCreatesNothing ==
    /\ ended[2] = ended[1]
    /\ \A i \in Entries : hist[i].run = 2 => hist[i].calls \cap CreateCalls = {}

\* C1: when every call succeeds, a second run over the same BOM creates
\* nothing and attaches to every line the part the first run attached.
C1_Idempotent ==
    TwoCleanRuns =>
        /\ SecondRunCreatesNothing
        /\ \A k \in 1..Len(bom) : hist[EntryOf(2, k)].part = hist[EntryOf(1, k)].part

\* the supplier parts of part p, and those of them with price-break rows
LinksOf(p) == {k \in 1..Len(supplierParts) : supplierParts[k].part = p}

PricedLinks(p) ==
    {k \in LinksOf(p) : \E r \in 1..Len(priceBreaks) : priceBreaks[r].part = k}

\* the link the code gives the price breaks to: the LCSC link when the line
\* has an LCSC SKU, else the Mouser link
PriceLink(p) ==
    {k \in LinksOf(p) :
        IF lcsc_sku # ""
        THEN supplierParts[k].supplier = lcsc_supplier
             /\ supplierParts[k].SKU = lcsc_sku
        ELSE supplierParts[k].supplier = mouser_supplier
             /\ supplierParts[k].SKU = mouser_sku}

\* create_part_in_inventree is about to return a part for a line for which
\* both suppliers returned price breaks
BothPricedCreated ==
    pc = "return" /\ {"lcsc_priced", "mouser_priced"} \subseteq calls

\* C8 (as stated): when both suppliers return price breaks, exactly one
\* supplier link of the created part has price-break rows, whatever the
\* outcomes of the link creations.
C8_ExactlyOnePricedLink ==
    BothPricedCreated => Cardinality(PricedLinks(part)) = 1

\* C8 (amended): when both suppliers return price breaks, at most one link
\* of the created part has price-break rows, and only the LCSC link (the
\* Mouser link when the line has no LCSC SKU); that link has rows when it
\* was created and no price-break creation failed, and no link has rows
\* when it was not created.
C8_AtMostOnePricedLink ==
    BothPricedCreated =>
        /\ Cardinality(PricedLinks(part)) <= 1
        /\ PricedLinks(part) \subseteq PriceLink(part)
        /\ "price_break_failed" \notin calls => PricedLinks(part) = PriceLink(part)

\* both links were created and one of them has the price-break rows
C8_Witness ==
    /\ BothPricedCreated
    /\ Cardinality(LinksOf(part)) = 2
    /\ Cardinality(PricedLinks(part)) = 1
    /\ lcsc_sku # ""

IsPrefix(a, b) == Len(a) <= Len(b) /\ SubSeq(b, 1, Len(a)) = a

\* the steps of create_part_in_inventree after the base part
AfterBasePart == pc \in {"image", "manufacturer", "lcsc", "mouser", "return"}

\* a step after the base part undoes nothing, keeps the part, and ends in
\* the part being attached to the line
KeepsPart ==
    AfterBasePart =>
        /\ parts' = parts
        /\ IsPrefix(supplierParts, supplierParts')
        /\ IsPrefix(priceBreaks, priceBreaks')
        /\ IsPrefix(manufacturerParts, manufacturerParts')
        /\ IsPrefix(companies, companies')
        /\ IsPrefix(categories, categories')
        /\ images \subseteq images'
        /\ pc' \in {"manufacturer", "lcsc", "mouser", "return", "line"}
        /\ pc' # "line" => part' = part
        /\ pc' = "line" =>
               /\ hist' = Append(hist, hist'[Len(hist')])
               /\ hist'[Len(hist')].status = "created"
               /\ hist'[Len(hist')].part = part
               /\ bom'[idx].inventree_part = Append(bom[idx].inventree_part, part)

\* C10: once the base part is created, whichever of the image upload, the
\* manufacturer part, the supplier links and the price breaks fail, nothing
\* created is rolled back and the part is attached to the line.
C10_NoRollback == [][KeepsPart]_vars

\* a part was attached although its image, its manufacturer part and its
\* supplier links all failed
C10_Witness ==
    \E i \in Entries :
        /\ hist[i].status = "created"
        /\ {"image_failed", "manufacturer_failed", "supplier_part_failed"}
               \subseteq hist[i].calls
        /\ hist[i].part \in 1..Len(parts)
        /\ LinksOf(hist[i].part) = {}
        /\ bom[hist[i].line].inventree_part = <<hist[i].part>>

\* the parts that have the name, in pk order the first
NamedLike(nm) == {p \in 1..Len(parts) : parts[p].name = nm}

\* the derived name of the line in hand
DerivedName == generate_part_name(Line.kicad_part, Line.kicad_value,
                                  Line.kicad_footprint)

\* the non-empty SKUs of the line in hand whose supplier company is there
AvailableSkus == (IF lcsc_sku # "" /\ lcsc_supplier # 0 THEN {lcsc_sku} ELSE {})
                 \cup (IF mouser_sku # "" /\ mouser_supplier # 0
                       THEN {mouser_sku} ELSE {})

\* the SKUs of the supplier parts appended by the step
NewLinks == [k \in 1..(Len(supplierParts') - Len(supplierParts)) |->
                supplierParts'[Len(supplierParts) + k]]

\* the supplement of the part found by name: no part is created, the part
\* is attached, every available SKU is linked to it afterwards, and the
\* links created are those of the SKUs the part did not have
Supplemented ==
    /\ parts' = parts
    /\ hist'[Len(hist')].status = "name_match"
    /\ hist'[Len(hist')].part = existing_by_name
    /\ bom'[idx].inventree_part = <<existing_by_name>>
    /\ \A sku \in AvailableSkus :
           \E k \in 1..Len(supplierParts') :
               supplierParts'[k].part = existing_by_name
               /\ supplierParts'[k].SKU = sku
    /\ \A k \in 1..Len(NewLinks) :
           /\ NewLinks[k].part = existing_by_name
           /\ NewLinks[k].SKU \in AvailableSkus
           /\ ~LinkedTo(existing_by_name, NewLinks[k].SKU)
           /\ \A j \in 1..Len(NewLinks) : NewLinks[j].SKU = NewLinks[k].SKU => j = k

\* the lookup by name finds the part that has the derived name
FoundByName ==
    pc' = "supplement" /\ existing_by_name' \in NamedLike(DerivedName)
    /\ parts' = parts

\* C11 (as stated): when a part with the line's derived name exists, no part
\* is created, that part is attached, and afterwards it has a link for each
\* available SKU of the line, only the missing links having been created.
C11_NameMatchSupplements ==
    [][/\ (pc = "name" /\ NamedLike(DerivedName) # {}) => FoundByName
       /\ pc = "supplement" => Supplemented]_vars

\* C11 (amended): the same for a line that reaches the lookup by name with
\* a non-empty derived name, provided the lookup by name, the listing of
\* the part's supplier parts and the link creations do not fail.
C11_NameMatchSupplementsUnlessCallsFail ==
    [][/\ (/\ pc = "name" /\ NamedLike(DerivedName) # {} /\ DerivedName # ""
           /\ "name_lookup_failed" \notin calls') => FoundByName
       /\ (/\ pc = "supplement"
           /\ calls' \cap {"supplement_list_failed", "supplier_part_failed"} = {})
              => Supplemented]_vars

\* a part found by name was given the links it lacked and has both SKUs
C11_Witness ==
    \E i \in Entries :
        /\ hist[i].status = "name_match"
        /\ hist[i].calls \cap {"name_lookup_failed", "supplement_list_failed",
                               "supplier_part_failed"} = {}
        /\ "supplier_part_create" \in hist[i].calls
        /\ LinkedTo(hist[i].part, FirstSku(bom[hist[i].line].lcsc))
        /\ LinkedTo(hist[i].part, FirstSku(bom[hist[i].line].mouser))
        /\ FirstSku(bom[hist[i].line].lcsc) # ""
        /\ FirstSku(bom[hist[i].line].mouser) # ""

\* C12: a line with no SKU match whose derived name is the name of an
\* existing part is resolved to that part, whatever the catalogs return
\* (the lookups by SKU and by name both come before the catalog fetch).
C12_LookupsBeforeFetch ==
    [][(/\ pc = "fetch" /\ owners = {}
        /\ DerivedName # "" /\ NamedLike(DerivedName) # {}
        /\ pc' = "line")
           => hist'[Len(hist')].part \in NamedLike(DerivedName)]_vars

\* the ways a line ends: resolved by SKU, resolved by name with supplement,
\* created then resolved, or failed
ResolvedStates == {"sku_match", "name_match", "created"}

FailedStates == {"no_data", "create_failed"}

\* C13: whatever the backend and catalog calls come to, the run goes
\* through every line, every line with a SKU and no part resolved before
\* ends in exactly one of the four states and has a part attached iff it
\* did not fail, and a failed line does not stop the lines after it.
C13_EveryLineEnds ==
    /\ api_key => pc # "crashed"
    /\ \A r \in 1..Len(ended) : WentThrough(r)
    /\ \A i \in Entries :
           hist[i].status \notin {"no_skus", "resolved_before"} =>
               /\ hist[i].status \in ResolvedStates \cup FailedStates
               /\ hist[i].part # 0 <=> hist[i].status \in ResolvedStates

\* C19: no catalog response, whatever its status, body or JSON shape, makes
\* a fetcher raise: ensure_parts_exist is never aborted by a catalog call.
C19_CatalogNeverAborts == ~(pc = "crashed" /\ "malformed_response" \in calls)

\* the (LCSC SKU, Mouser SKU) pair the loop reads from line i of the BOM
SkuPair(i) == <<FirstSku(bom[i].lcsc), FirstSku(bom[i].mouser)>>

\* C14: within one run, a line with the same SKU pair as an earlier resolved
\* line is attached to the same part as that line, and its processing makes
\* no catalog fetch and no part-creation call, whatever became of the earlier
\* line's supplier-link creations.
C14_SameSkusSamePart ==
    \A i, j \in Entries :
        (/\ i < j /\ hist[i].run = hist[j].run
         /\ SkuPair(hist[i].line) = SkuPair(hist[j].line)
         /\ hist[i].status \in ResolvedStates
         /\ hist[j].status # "resolved_before")
            => /\ hist[j].part = hist[i].part
               /\ hist[j].calls \cap (FetchCalls \cup {"part_create"}) = {}

(***************************************************************************)
(* generate_part_name on its own, over drawn families, values, footprints. *)
(***************************************************************************)
NameInputs ==
    [kicad_part : {"R", "C", "C_Polarized", "L", "L_Iron", "Crystal",
                   "R_Small", "IC_Custom"},
     kicad_value : {"10k", " 10k ", "8MHz / 20pF", "8MHz  /20pF",
                    "100u /  25V", "1  2", "", "/ 5"},
     kicad_footprint : {"R_0805_2012Metric", "C_0805_2012Metric", "SOT-23",
                        "SOIC-8_3.9x4.9mm", "", "C_CASE-A_3216", "R_0805",
                        "CP_Elec_4x5.4", "L_0603_1608Metric"}]

InitName ==
    /\ AtRest("name_only")
    /\ categories = << >>
    /\ faults = 0
    /\ merge = None
    /\ walk = << >>
    /\ named \in {Some([arg |-> a, done |-> FALSE, out |-> ""]) : a \in NameInputs}
    /\ price_row = None
    /\ search = None

\* one call of generate_part_name
GeneratePartName ==
    /\ pc = "name_only"
    /\ ~named[1].done
    /\ named' = Some([named[1] EXCEPT
                        !.done = TRUE,
                        !.out = generate_part_name(named[1].arg.kicad_part,
                                                   named[1].arg.kicad_value,
                                                   named[1].arg.kicad_footprint)])
    /\ UNCHANGED <<backend, api_key, bom, pc, run, idx, lcsc_supplier,
                   mouser_supplier, locals, faults, calls, owners, hist, ended,
                   merge, walk, bomItems, export, external, price_row, search, category_map>>

SpecName == InitName /\ [][GeneratePartName]_vars

(***************************************************************************)
(* ensure_parts_exist of the inventree_sync package, called with a         *)
(* category map or without one.                                            *)
(***************************************************************************)
\* the names inventree_sync/categories.py defines
CategoriesNames ==
    {"KICAD_CATEGORY_MAP", "extract_package", "generate_part_name",
     "get_or_create_category", "resolve_part_category"}

\* the parameters of the package's functions; none has a default
Parameters ==
    ("get_or_create_supplier" :> <<"api", "pk", "name">>)
 @@ ("resolve_part_category" :> <<"api", "kicad_part", "part_data", "footprint">>)

\* Python binds a call of f with so many positional arguments and these
\* keyword arguments (anything else raises TypeError)
Binds(f, positional, keywords) ==
    LET params == Parameters[f]
    IN  /\ positional <= Len(params)
        /\ \A k \in keywords :
               \E i \in (positional + 1)..Len(params) : params[i] = k
        /\ \A i \in (positional + 1)..Len(params) : params[i] \in keywords

\* the maps the caller passes
PackageMaps ==
    {None, Some(KICAD_CATEGORY_MAP),
     Some(("IC_Custom" :> <<"Integrated Circuits">>))}

InitPackage ==
    InitAt("package", PackageMaps, InitialBackends, SeqsUpTo(LinePool, MaxLines), 0)

\* "from inventree_sync import ensure_parts_exist" and the call of it with
\* category_map, up to the loop over the lines
PackageEnsurePartsExist ==
    /\ pc = "package"
    /\ LET raised ==
               \* __init__.py: from .categories import load_category_map
               IF "load_category_map" \notin CategoriesNames THEN "ImportError"
               \* MouserFetcher()
               ELSE IF ~api_key THEN "EnvironmentError"
               \* get_or_create_supplier(api, name="LCSC")
               ELSE IF ~Binds("get_or_create_supplier", 1, {"name"}) THEN "TypeError"
               \* resolve_part_category(api, kicad_part, part_data,
               \* kicad_footprint, category_map), for a line that gets there
               ELSE IF bom # << >> /\ ~Binds("resolve_part_category", 5, {})
                    THEN "TypeError"
               ELSE ""
       IN  /\ pc' = IF raised # "" THEN "crashed" ELSE "done"
           /\ calls' = IF raised # "" THEN {raised} ELSE calls
    /\ UNCHANGED <<backend, api_key, bom, run, idx, lcsc_supplier,
                   mouser_supplier, locals, faults, owners, hist, ended,
                   merge, walk, named, bomItems, export, external, price_row,
                   search, category_map>>

SpecPackage == InitPackage /\ [][PackageEnsurePartsExist]_vars

(***************************************************************************)
(* MouserFetcher._parse_price and the price-break loop of                  *)
(* MouserFetcher.fetch on their own, over drawn rows of "PriceBreaks".     *)
(* A float is kept exactly, as its digits and the number of them that      *)
(* follow the decimal point.                                               *)
(***************************************************************************)
\* the characters of s that are in cs, in order
RECURSIVE Keep(_, _)
Keep(s, cs) ==
    IF s = "" THEN ""
    ELSE (IF Char(s, 1) \in cs THEN Char(s, 1) ELSE "") \o Keep(Drop(s, 1), cs)

\* str.rfind(c): the 0-based index of the last c, -1 without one
RFind(s, c) ==
    LET at == {i \in 1..Len(s) : Char(s, i) = c}
    IN  IF at = {} THEN -1 ELSE (CHOOSE i \in at : \A j \in at : j <= i) - 1

\* str.replace(c, d) for a single character c
RECURSIVE Replace(_, _, _)
Replace(s, c, d) ==
    IF s = "" THEN ""
    ELSE (IF Char(s, 1) = c THEN d ELSE Char(s, 1)) \o Replace(Drop(s, 1), c, d)

DigitValue(c) == CHOOSE d \in 0..9 : Char("0123456789", d + 1) = c

\* the number written by a string of digits (0 for the empty string)
RECURSIVE Number(_)
Number(s) ==
    IF s = "" THEN 0
    ELSE 10 * Number(SubSeq(s, 1, Len(s) - 1)) + DigitValue(Char(s, Len(s)))

\* float(s) for s made of digits and periods
Float(s) ==
    LET dots == {i \in 1..Len(s) : Char(s, i) = "."}
    IN  IF Cardinality(dots) > 1 \/ Keep(s, Digits) = ""
        THEN [raised |-> "ValueError", units |-> 0, places |-> 0]
        ELSE [raised |-> "",
              units |-> Number(Keep(s, Digits)),
              places |-> IF dots = {} THEN 0
                         ELSE Len(s) - (CHOOSE i \in dots : TRUE)]

\* int(s) for a string s
IntOf(s) ==
    LET t == Strip(s)
    IN  IF t = "" \/ Keep(t, Digits) # t
        THEN [raised |-> "ValueError", value |-> 0]
        ELSE [raised |-> "", value |-> Number(t)]

\* a JSON value of a row: a string, null, or no such key
Str(text) == [kind |-> "str", text |-> text]
Null == [kind |-> "null", text |-> ""]
Absent == [kind |-> "absent", text |-> ""]

_parse_price(price_str) ==
    IF price_str.kind # "str"
    THEN [raised |-> "AttributeError", units |-> 0, places |-> 0]
    ELSE LET cleaned == Keep(Strip(price_str.text), Digits \cup {",", "."})
             last_comma == RFind(cleaned, ",")
             last_dot == RFind(cleaned, ".")
         IN  IF cleaned = "" THEN [raised |-> "", units |-> 0, places |-> 0]
             ELSE IF last_comma > last_dot
                  THEN Float(Replace(Replace(cleaned, ".", ""), ",", "."))
                  ELSE Float(Replace(cleaned, ",", ""))

\* one turn of the loop over p.get("PriceBreaks"): the exception that leaves
\* the loop ("" for none) and the entry put in price_breaks, if any
PriceBreakRow(pb) ==
    LET qty == IF pb.Quantity.kind = "absent" THEN [raised |-> "KeyError", value |-> 0]
               ELSE IF pb.Quantity.kind = "null" THEN [raised |-> "TypeError", value |-> 0]
               ELSE IntOf(pb.Quantity.text)
        price == _parse_price(IF pb.Price.kind = "absent" THEN Str("0") ELSE pb.Price)
        thrown == IF qty.raised # "" THEN qty.raised ELSE price.raised
    IN  [raised |-> IF thrown \in {"KeyError", "ValueError", "TypeError"} THEN "" ELSE thrown,
         price_breaks |-> IF thrown = ""
                          THEN Some([qty |-> qty.value, units |-> price.units,
                                     places |-> price.places])
                          ELSE None]

PriceRows ==
    [Quantity : {Str("1"), Str("10"), Str(" 5 "), Str("1,000"), Str("x"), Str(""),
                 Null, Absent},
     Price : {Str("€ 7,07"), Str("$ 1,234.56"), Str("0.1234"), Str("1.234,56"),
              Str("1,234"), Str("12"), Str("€"), Str(""), Str("n/a"), Str("."),
              Str("1.2.3"), Str("1,2,3"), Str(" 5. "), Null, Absent}]

InitPrice ==
    /\ AtRest("price_only")
    /\ categories = << >>
    /\ faults = 0
    /\ merge = None
    /\ walk = << >>
    /\ named = None
    /\ price_row \in {Some([pb |-> pb, done |-> FALSE, raised |-> "", price_breaks |-> None]) :
                          pb \in PriceRows}
    /\ search = None

\* the loop of MouserFetcher.fetch takes one row
ParsePriceBreak ==
    /\ pc = "price_only"
    /\ ~price_row[1].done
    /\ price_row' = Some([price_row[1] EXCEPT
                            !.done = TRUE,
                            !.raised = PriceBreakRow(price_row[1].pb).raised,
                            !.price_breaks = PriceBreakRow(price_row[1].pb).price_breaks])
    /\ UNCHANGED <<backend, api_key, bom, pc, run, idx, lcsc_supplier,
                   mouser_supplier, locals, faults, calls, owners, hist, ended,
                   merge, walk, named, bomItems, export, external, search, category_map>>

SpecPrice == InitPrice /\ [][ParsePriceBreak]_vars

(***************************************************************************)
(* LCSCFetcher.fetch_by_mpn on its own, over drawn part numbers and        *)
(* responses of the search service.                                        *)
(***************************************************************************)
\* str.upper() on the characters used
RECURSIVE Upper(_)
Upper(s) ==
    IF s = "" THEN ""
    ELSE LET up == {c \in DOMAIN LowerOf : LowerOf[c] = Char(s, 1)}
         IN  (IF up # {} THEN CHOOSE c \in up : TRUE ELSE Char(s, 1))
             \o Upper(Drop(s, 1))

\* a selection that takes the head of the list whatever the part numbers
SelectFirstCode(mpn, result) ==
    IF result.tip # None /\ result.tip[1] # "" THEN result.tip[1]
    ELSE IF result.productList # << >> THEN result.productList[1].productCode
    ELSE ""

\* the product code fetch_by_mpn settles on ("" for none): result is the
\* "result" object of the response, tip the productCode of its
\* tipProductDetailUrlVO (None without the hint, "" for a hint without code)
SelectCode(mpn, result) ==
    IF result.tip # None /\ result.tip[1] # "" THEN result.tip[1]
    ELSE LET product_list == result.productList
             exact == {i \in 1..Len(product_list) :
                          Upper(product_list[i].productModel) = Upper(mpn)}
         IN  IF exact # {} THEN product_list[Least(exact)].productCode
             ELSE IF product_list # << >> THEN product_list[1].productCode
             ELSE ""

\* fetch_by_mpn: the product code handed to fetch_by_sku ("" when it is not
\* called) and the record returned; kind is the response to the search
\* request, detail the response to the detail request
fetch_by_mpn(mpn, kind, result, detail) ==
    LET code == IF LcscSearchOn(kind) = "answer" THEN SelectCode(mpn, result) ELSE ""
    IN  [code |-> code,
         out |-> IF code # "" /\ LcscDetailOn(detail) = "answer"
                 THEN LcscDetail(code) ELSE None]

\* products the search service lists, each with its part number and its
\* product code
SearchProducts ==
    {[productModel |-> "X1", productCode |-> "C7"],
     [productModel |-> "x1", productCode |-> "C2"],
     [productModel |-> "RC0805-10K", productCode |-> "C1"],
     [productModel |-> "X1-T", productCode |-> "C9"]}

SearchInputs ==
    [mpn : {"X1", "x1", "Rc0805-10k", "Q9"},
     kind : {"ok", "timeout", "null_result"},
     tip : {None, Some(""), Some("C2"), Some("C9")},
     productList : {<< >>} \cup SeqsUpTo(SearchProducts, 2),
     detail : {"ok", "bad_status"}]

InitSearch ==
    /\ AtRest("search_only")
    /\ categories = << >>
    /\ faults = 0
    /\ merge = None
    /\ walk = << >>
    /\ named = None
    /\ price_row = None
    /\ search \in {Some([arg |-> a, done |-> FALSE, code |-> "", out |-> None]) :
                       a \in SearchInputs}

\* one call of fetch_by_mpn
FetchByMpn ==
    /\ pc = "search_only"
    /\ ~search[1].done
    /\ LET a == search[1].arg
           o == fetch_by_mpn(a.mpn, a.kind, [tip |-> a.tip, productList |-> a.productList],
                             a.detail)
       IN  search' = Some([search[1] EXCEPT !.done = TRUE, !.code = o.code,
                                            !.out = o.out])
    /\ UNCHANGED <<backend, api_key, bom, pc, run, idx, lcsc_supplier,
                   mouser_supplier, locals, faults, calls, owners, hist, ended,
                   merge, walk, named, bomItems, export, external, price_row, category_map>>

SpecSearch == InitSearch /\ [][FetchByMpn]_vars

(***************************************************************************)
(* Properties of the category helpers.                                     *)
(***************************************************************************)
Walked == 1..Len(walk)

\* the names on the way from the root down to category c of the backend
RECURSIVE ChainOf(_, _)
ChainOf(cats, c) ==
    IF c = 0 THEN << >>
    ELSE Append(ChainOf(cats, cats[c].parent), cats[c].name)

\* the categories the calls of the harness created
CreatedCategories ==
    IF walk = << >> THEN {} ELSE (walk[1].before + 1)..Len(categories)

\* C15: a second call of get_or_create_category with the same path, on the
\* backend a first successful call left, creates no category and returns the
\* same leaf; after successful calls no two categories the pipeline created
\* share both name and parent.
C15_CategoryIdempotent ==
    /\ \A i \in Walked \ {Len(walk)} :
           (walk[i].result # 0 /\ walk[i + 1].path = walk[i].path) =>
               /\ walk[i + 1].after = walk[i + 1].before
               /\ walk[i + 1].result # 0 => walk[i + 1].result = walk[i].result
    /\ (\A i \in Walked : walk[i].result # 0) =>
           \A a, b \in CreatedCategories :
               (/\ categories[a].name = categories[b].name
                /\ categories[a].parent = categories[b].parent) => a = b

\* a path was walked twice, the first call creating levels, both succeeding
C15_Witness ==
    /\ Len(walk) = 2
    /\ walk[1].path = walk[2].path
    /\ walk[1].after > walk[1].before
    /\ walk[1].result # 0 /\ walk[2].result = walk[1].result
    /\ Len(walk[1].path) = 3

\* C16: the category get_or_create_category returns carries, from the root
\* down to itself, exactly the names of the path in order: the first level
\* is a root category and each later level a direct child of the one before.
C16_PathFromRoot ==
    \A i \in Walked :
        walk[i].result # 0 => ChainOf(categories, walk[i].result) = walk[i].path

\* the families whose path is extended by the package code
PackageFamilies == {"C", "C_Small", "R", "R_Small", "R_Network", "RN"}

\* C17: the path resolved for a line is the family's mapped path, extended
\* by the package code exactly when the family is a ceramic-capacitor or
\* resistor variant and the code is non-empty; for an unmapped family the
\* supplier path when non-empty, and ("Miscellaneous") otherwise.
C17_ResolvedPath ==
    \A i \in Walked :
        LET w == walk[i]
            mapped == w.kicad_part \in DOMAIN KICAD_CATEGORY_MAP
            pkg == extract_package(w.footprint)
            extended == w.kicad_part \in PackageFamilies /\ pkg # ""
        IN  /\ (mapped /\ extended) =>
                   w.path = KICAD_CATEGORY_MAP[w.kicad_part] \o <<pkg>>
            /\ (mapped /\ ~extended) => w.path = KICAD_CATEGORY_MAP[w.kicad_part]
            /\ (~mapped /\ w.category_path # << >>) => w.path = w.category_path
            /\ (~mapped /\ w.category_path = << >>) => w.path = <<"Miscellaneous">>

\* a ceramic capacitor with a package and an unmapped family with a supplier
\* path were resolved, and their categories exist
C17_Witness ==
    /\ Len(walk) = 2
    /\ walk[1].kicad_part = "C" /\ walk[1].footprint = "C_0805_2012Metric"
    /\ walk[1].path = <<"Capacitors", "Ceramic", "0805">>
    /\ walk[2].kicad_part = "IC_Custom" /\ walk[2].category_path = <<"Ceramic">>
    /\ walk[2].path = <<"Ceramic">>
    /\ walk[1].result # 0 /\ walk[2].result # 0

(***************************************************************************)
(* Properties of the naming helpers.                                       *)
(***************************************************************************)
\* the positions of character c in s
Positions(s, c) == {i \in 1..Len(s) : Char(s, i) = c}

\* s without its whitespace
RECURSIVE Squeezed(_)
Squeezed(s) ==
    IF s = "" THEN ""
    ELSE IF Char(s, 1) \in WhiteSpace THEN Squeezed(Drop(s, 1))
    ELSE Char(s, 1) \o Squeezed(Drop(s, 1))

\* the gaps of s: positions where whitespace begins between two characters
\* neither of which is '/'
Gaps(s) ==
    {i \in 2..Len(s) :
        /\ Char(s, i) \in WhiteSpace
        /\ Char(s, i - 1) \notin WhiteSpace \cup {"/"}
        /\ LET rest == Drop(s, i - 1)
               k == LeadingRun(rest, WhiteSpace)
           IN  k < Len(rest) /\ Char(rest, k + 1) # "/"}

\* v is value in normal form: no whitespace around '/', single spaces only,
\* trimmed ends, the same characters with the same gaps between them
NormalFormOf(v, value) ==
    /\ \A i \in 1..Len(v) :
           Char(v, i) \in WhiteSpace =>
               /\ Char(v, i) = " "
               /\ 1 < i /\ i < Len(v)
               /\ Char(v, i - 1) \notin WhiteSpace \cup {"/"}
               /\ Char(v, i + 1) \notin WhiteSpace \cup {"/"}
    /\ Squeezed(v) = Squeezed(value)
    /\ Cardinality(Positions(v, " ")) = Cardinality(Gaps(value))

\* the package as the naming rule words it: the segment between the first
\* and the second underscore of <C|R|L>_<package>_<rest>, the first
\* underscore-delimited segment of any other footprint
SegmentPackage(footprint) ==
    LET cut == Positions(footprint, "_")
        second == {i \in cut : i > 2}
    IN  IF /\ Len(footprint) >= 2
           /\ Char(footprint, 1) \in {"C", "R", "L"}
           /\ Char(footprint, 2) = "_"
           /\ second # {}
        THEN SubSeq(footprint, 3, (CHOOSE i \in second : \A j \in second : i <= j) - 1)
        ELSE FirstSegment(footprint)

NameDone == named # None /\ named[1].done

\* C18: generate_part_name normalizes the value and returns
\* 'R <value> <package>' for R, 'C <value> <package>' for C, 'CP <value>' for
\* the polarized capacitor, 'L <value>' for the inductor families,
\* 'XTAL <value>' for Crystal and the value alone otherwise, the package
\* being the segment between the first and second underscore of
\* <C|R|L>_<package>_<rest> and the first segment of any other footprint.
C18_GeneratedName ==
    NameDone =>
        LET a == named[1].arg
            pkg == SegmentPackage(a.kicad_footprint)
        IN  \E v \in {SubSeq(named[1].out, i, j) :
                          i \in 1..(Len(named[1].out) + 1),
                          j \in 0..Len(named[1].out)} :
                /\ NormalFormOf(v, a.kicad_value)
                /\ named[1].out =
                       IF a.kicad_part = "R" THEN "R " \o v \o " " \o pkg
                       ELSE IF a.kicad_part = "C" THEN "C " \o v \o " " \o pkg
                       ELSE IF a.kicad_part = "C_Polarized" THEN "CP " \o v
                       ELSE IF a.kicad_part \in {"L", "L_Iron"} THEN "L " \o v
                       ELSE IF a.kicad_part = "Crystal" THEN "XTAL " \o v
                       ELSE v

(***************************************************************************)
(* Failing lookups.                                                        *)
(***************************************************************************)
\* the supplier parts carrying SKU sku
Carrying(sku) == {i \in 1..Len(supplierParts) : supplierParts[i].SKU = sku}

\* the line in hand was attached to part p as a match by SKU
MatchedBySku(p) ==
    /\ pc' = "line"
    /\ Len(hist') = Len(hist) + 1
    /\ hist'[Len(hist')].status = "sku_match"
    /\ hist'[Len(hist')].part = p

\* the step in hand is the lookup by SKU of a line, and it met a failure
SkuLookupFailing ==
    /\ pc = "line" /\ idx <= Len(bom)
    /\ ~(Line.lcsc = << >> /\ Line.mouser = << >>)
    /\ Line.inventree_part = << >>
    /\ "sku_lookup_failed" \in calls'

\* C20: a failing list or fetch call inside the lookup by SKU or by name
\* counts as no match: nothing is raised, the lookup by SKU still tries the
\* other SKU after a failure on the first, and the line goes on to the next
\* step of the pipeline.
C20_LookupFailureIsMiss ==
    [][/\ SkuLookupFailing =>
              \/ pc' = "fetch" /\ hist' = hist /\ idx' = idx
              \/ /\ Carrying(mouser_sku) # {}
                 /\ MatchedBySku(supplierParts[Least(Carrying(mouser_sku))].part)
       /\ (/\ SkuLookupFailing
           /\ faults - faults' = 1
           /\ Carrying(lcsc_sku) # {} /\ Carrying(mouser_sku) # {}) =>
              MatchedBySku(supplierParts[Least(Carrying(mouser_sku))].part)
       /\ (pc = "name" /\ "name_lookup_failed" \in calls') =>
              /\ pc' = "category" /\ existing_by_name' = 0
              /\ hist' = hist /\ idx' = idx]_vars

\* a line whose lookup of the LCSC SKU failed was matched by its Mouser SKU,
\* both SKUs being carried by supplier parts
C20_Witness ==
    \E i \in Entries :
        /\ hist[i].status = "sku_match"
        /\ "sku_lookup_failed" \in hist[i].calls
        /\ Carrying(FirstSku(bom[hist[i].line].lcsc)) # {}
        /\ Carrying(FirstSku(bom[hist[i].line].mouser)) # {}

(***************************************************************************)
(* Properties of the BOM export.                                           *)
(***************************************************************************)
\* the records main itself has created
ExportRecords ==
    {p \in 1..Len(parts) : parts[p].created_by = "bom_export"}

\* every line with an SKU has a part
AllResolved == Missing(bom) = {}

\* C21: if after ensure_parts_exist and match_supplier_parts a line with an
\* SKU is still without a part, the program exits before any PCB, assembly
\* or stencil part or BOM item is created: a BOM item is only ever created
\* in a run in which every line with an SKU is resolved.
C21_UnresolvedAborts ==
    /\ (ExportRecords # {} \/ bomItems # << >>) => AllResolved
    /\ pc \in {"categories", "pcb", "assembly", "stencil", "related", "bom",
               "finished"} => AllResolved
    /\ export.reason = "missing_parts" =>
           /\ pc = "exited" /\ ~AllResolved
           /\ ExportRecords = {} /\ bomItems = << >>

\* the program exited over a line that ensure_parts_exist went through and
\* left without a part
C21_Witness ==
    /\ pc = "exited" /\ export.reason = "missing_parts"
    /\ \E i \in Entries : hist[i].status \in FailedStates
                          /\ hist[i].line \in Missing(bom)
    /\ ExportRecords = {} /\ bomItems = << >>

(***************************************************************************)
(* The missing Mouser credential.                                          *)
(***************************************************************************)
\* nothing of the run has happened: no line was gone through, no call made
NothingDone ==
    /\ hist = << >> /\ ended = << >> /\ calls = {}
    /\ lcsc_supplier = 0 /\ mouser_supplier = 0
    /\ PipelineParts = {}
    /\ priceBreaks = << >> /\ manufacturerParts = << >> /\ images = {}
    /\ Len(supplierParts) <= 1 /\ Len(categories) <= 1

\* no line of the BOM carries a Mouser SKU, and every line an LCSC SKU
LcscOnly ==
    /\ bom # << >>
    /\ \A i \in 1..Len(bom) : /\ bom[i].mouser = << >> /\ bom[i].lcsc # << >>
                              /\ bom[i].inventree_part = << >>

\* C22 (as stated): without the Mouser credential ensure_parts_exist fails
\* at startup, before any line and any backend call, and the failure is
\* confined to the Mouser fetcher: a BOM of LCSC-only lines is processed.
C22_MissingKeyConfined ==
    ~api_key =>
        /\ pc \in {"start", "crashed"} => NothingDone
        /\ LcscOnly => pc # "crashed"

\* C22 (amended): without the Mouser credential ensure_parts_exist fails at
\* startup, before any line and any backend call, whatever the BOM holds:
\* no line is processed, also when every line carries an LCSC SKU only.
C22_MissingKeyIsFatal ==
    ~api_key => /\ pc \in {"start", "crashed"}
                /\ NothingDone

\* the run has stopped at startup on a BOM of LCSC-only lines
C22_Witness == ~api_key /\ pc = "crashed" /\ LcscOnly

(***************************************************************************)
(* Properties of the rerun after a terminated run.                         *)
(***************************************************************************)
\* the complete run after the terminated one is over
RerunDone == pc = "done" /\ run = 2 /\ Len(ended) = 2

\* the parts the rerun created
RerunParts == IF Len(ended) = 0 THEN {} ELSE (ended[1].parts + 1)..Len(parts)

\* a catalog knows the SKUs the loop reads from line k
CatalogData(k) ==
    LET pair == SkuPair(k)
    IN  \/ pair[1] \in DOMAIN LcscProducts
        \/ pair[2] \in DOMAIN MouserProducts
        \/ pair[2] # "" /\ LcscSearch(_strip_mouser_prefix(pair[2]))
                              \in DOMAIN LcscProducts

\* lines j and k read the same LCSC SKU or the same Mouser SKU
SharesSku(j, k) ==
    \E side \in 1..2 : SkuPair(j)[side] # "" /\ SkuPair(j)[side] = SkuPair(k)[side]

\* the backend held nothing entered by hand when the first run began
FreshStart == \A p \in 1..Len(parts) : parts[p].created_by # "user"

\* an uninterrupted run without failing calls, begun on an empty backend,
\* resolves line k: the catalogs know it, or the first line was created
\* from catalog data with a link for an SKU that line k shares
WouldResolve(k) ==
    /\ FreshStart
    /\ \/ CatalogData(k)
       \/ k > 1 /\ CatalogData(1) /\ SharesSku(1, k)

\* the rerun left no line behind that an uninterrupted run resolves
RerunResolves ==
    \A k \in 1..Len(bom) :
        WouldResolve(k) => hist[EntryOf(2, k)].status \in ResolvedStates

\* C23: when a run is terminated between any two backend calls, a complete
\* rerun on the same BOM creates no part whose name duplicates that of an
\* existing part, and every line an uninterrupted run would resolve ends
\* resolved.
C23_RerunResumes ==
    RerunDone =>
        /\ \A q \in RerunParts : \A p \in 1..(q - 1) : parts[p].name # parts[q].name
        /\ RerunResolves

(***************************************************************************)
(* Properties of a run on a shared backend.                                *)
(***************************************************************************)
\* the step creates no category and no manufacturer company that the
\* backend held already when the step began
NothingCreatedTwice ==
    /\ (pc = "category" /\ pc' = "create") =>
           \A c \in (Len(categories) + 1)..Len(categories') :
               \A o \in 1..Len(categories) :
                   ~(/\ categories[o].name = categories'[c].name
                     /\ categories[o].parent = categories'[c].parent)
    /\ (pc = "manufacturer" /\ pc' = "lcsc") =>
           \A c \in (Len(companies) + 1)..Len(companies') :
               \A o \in 1..Len(companies) :
                   ~(/\ companies[o].is_manufacturer
                     /\ Lower(companies[o].name) = Lower(companies'[c].name))

\* the step is the lookup by name, and a part of that name is in the backend
NamedPartExists ==
    /\ pc = "name" /\ pc' # "name"
    /\ \E p \in 1..Len(parts) : parts[p].name = name'

\* the lookup by name hands the line to the part found
ReusedByName ==
    /\ pc' = "supplement"
    /\ existing_by_name' \in 1..Len(parts)
    /\ parts[existing_by_name'].name = name'

\* C24 (as stated): with another user adding parts, categories and
\* manufacturers during the run, every part, category and manufacturer
\* create call comes after an existence check made for the same line, and a
\* record added before the check is reused, not created again.
C24_ChecksBeforeCreates ==
    [][/\ "part_create" \in calls' => "part_list" \in calls'
       /\ "category_create" \in calls' => "category_list" \in calls'
       /\ "company_create" \in calls' => "company_list" \in calls'
       /\ NamedPartExists => ReusedByName
       /\ NothingCreatedTwice]_vars

\* C24 (amended): every category and manufacturer create call, and every
\* part create call for a non-empty name, comes after an existence check
\* made for the same line; a category or manufacturer added before the
\* check is reused, and so is a part of the same non-empty name when the
\* lookup by name succeeds.
C24_ChecksBeforeCreatesUnlessUnnamed ==
    [][/\ ("part_create" \in calls' /\ name' # "") => "part_list" \in calls'
       /\ "category_create" \in calls' => "category_list" \in calls'
       /\ "company_create" \in calls' => "company_list" \in calls'
       /\ (/\ NamedPartExists /\ name' # ""
           /\ "name_lookup_failed" \notin calls') => ReusedByName
       /\ NothingCreatedTwice]_vars

\* a line was resolved to a part the other user had added during the run
C24_Witness ==
    \E i \in Entries :
        /\ hist[i].status = "name_match"
        /\ parts[hist[i].part].created_by = "external"

(***************************************************************************)
(* Properties of the Mouser price parsing.                                 *)
(***************************************************************************)
PriceDone == price_row # None /\ price_row[1].done

Pow10(n) == IF n = 0 THEN 1 ELSE IF n = 1 THEN 10 ELSE IF n = 2 THEN 100
            ELSE IF n = 3 THEN 1000 ELSE 10000

\* the row's quantity reads as an integer
QuantityParses(pb) ==
    /\ pb.Quantity.kind = "str"
    /\ Strip(pb.Quantity.text) # ""
    /\ Keep(Strip(pb.Quantity.text), Digits) = Strip(pb.Quantity.text)

\* the row's price is no text, or a text without a digit
PriceWithoutDigits(pb) ==
    \/ pb.Price.kind = "null"
    \/ pb.Price.kind = "str" /\ Keep(pb.Price.text, Digits) = ""

\* the row entered the mapping with the price units / 10^places
PricedAt(row, units, places) ==
    /\ row.price_breaks # None
    /\ row.price_breaks[1].units * Pow10(places) = units * Pow10(row.price_breaks[1].places)

\* C25: the price parser keeps digits, commas and periods only and takes the
\* rightmost of the last comma and the last period as the decimal separator
\* ("€ 7,07" is 7.07, "$ 1,234.56" is 1234.56, "0.1234" is 0.1234); a row
\* whose quantity or price cannot be parsed, a price without any digit
\* included, is left out of the price-break mapping, and no exception leaves
\* the fetcher.
C25_PriceRows ==
    PriceDone =>
        LET row == price_row[1]
        IN  /\ row.raised = ""
            /\ (~QuantityParses(row.pb) \/ PriceWithoutDigits(row.pb))
                   => row.price_breaks = None
            /\ QuantityParses(row.pb) =>
                   /\ row.pb.Price = Str("€ 7,07") => PricedAt(row, 707, 2)
                   /\ row.pb.Price = Str("$ 1,234.56") => PricedAt(row, 123456, 2)
                   /\ row.pb.Price = Str("0.1234") => PricedAt(row, 1234, 4)
                   /\ row.pb.Price = Str("1.234,56") => PricedAt(row, 123456, 2)
                   /\ row.pb.Price = Str("1,234") => PricedAt(row, 1234, 3)
                   /\ row.pb.Price \in {Str("1.2.3"), Str("1,2,3"), Str(".")}
                          => row.price_breaks = None

(***************************************************************************)
(* Properties of the LCSC search by part number.                           *)
(***************************************************************************)
SearchDone == search # None /\ search[1].done

\* the search service answered with a result object
Answered == search[1].arg.kind = "ok"

\* the response carries the direct-hit hint with a product code
Hinted == search[1].arg.tip \notin {None, Some("")}

\* positions of the listed products whose part number is the query's,
\* ignoring case
ExactHits ==
    {i \in 1..Len(search[1].arg.productList) :
         Lower(search[1].arg.productList[i].productModel) = Lower(search[1].arg.mpn)}

\* the detail of product code could not be fetched
DetailFails(code) == search[1].arg.detail # "ok" \/ code \notin DOMAIN LcscProducts

\* C26: the search by part number uses the product of the direct-hit hint
\* when the hint carries a product code, whatever the list holds; otherwise
\* the first listed product whose part number is the query's ignoring case;
\* otherwise the first listed product; and it returns "not found" only when
\* no product could be selected or the detail of the selected one could not
\* be fetched.
C26_SearchSelection ==
    (SearchDone /\ Answered) =>
        LET a == search[1].arg
        IN  /\ Hinted => search[1].code = a.tip[1]
            /\ (~Hinted /\ ExactHits # {})
                   => search[1].code = a.productList[Least(ExactHits)].productCode
            /\ (~Hinted /\ ExactHits = {} /\ a.productList # << >>)
                   => search[1].code = a.productList[1].productCode
            /\ (~Hinted /\ a.productList = << >>) => search[1].code = ""
            /\ search[1].out = None
                   <=> (search[1].code = "" \/ DetailFails(search[1].code))
            /\ search[1].out # None => search[1].out[1].lcsc_sku = search[1].code

\* a product found by its part number in another case, listed second
C26_Witness ==
    /\ SearchDone /\ Answered /\ ~Hinted
    /\ ExactHits = {2}
    /\ search[1].arg.productList[2].productModel # search[1].arg.mpn
    /\ search[1].out # None
    /\ search[1].out[1].lcsc_sku = search[1].arg.productList[2].productCode

(***************************************************************************)
(* Properties of the supplier links.                                       *)
(***************************************************************************)
\* the parts a line of some run was matched to by name and supplemented
SupplementedParts ==
    {hist[i].part : i \in {j \in 1..Len(hist) : hist[j].status = "name_match"}}

\* the supplier parts that link part p to the supplier company named so
LinksTo(p, supplier_name) ==
    {i \in 1..Len(supplierParts) :
         /\ supplierParts[i].part = p
         /\ supplierParts[i].supplier \in 1..Len(companies)
         /\ companies[supplierParts[i].supplier].name = supplier_name}

C28_EveryPartCategorised ==
    \A p \in PipelineParts : parts[p].category \in 1..Len(categories)

(***************************************************************************)
(* Properties of the category map.                                         *)
(***************************************************************************)
\* the call of the package's ensure_parts_exist has returned or raised
PackageDone == pc \in {"done", "crashed"}

\* line k of a BOM handed to a backend without hand-made parts: it carries
\* an SKU a catalog knows and no part yet
ToBeCreated(k) ==
    /\ FreshStart
    /\ bom[k].inventree_part = << >>
    /\ CatalogData(k)

\* C29: ensure_parts_exist called with a category map resolves each line's
\* family through that map, and through the built-in map when none is
\* given; with the Mouser key set, the map given never keeps a line from
\* reaching the creation of its part.
C29_MapResolvesFamilies ==
    (PackageDone /\ api_key) =>
        /\ pc = "done"
        /\ \A k \in 1..Len(bom) :
               ToBeCreated(k) =>
                   \E i \in Entries : /\ hist[i].line = k
                                      /\ hist[i].status \in ResolvedStates

\* C30: whenever the family of a line is not in the category map,
\* resolve_category logs a warning, and no error, before it falls back to
\* the supplier's path or to Miscellaneous, and the category is resolved all
\* the same.
C30_UnmappedFamilyWarns ==
    \A i \in Walked :
        (walk[i].kicad_part \notin DOMAIN KICAD_CATEGORY_MAP /\ walk[i].failed = 0) =>
            /\ "warning" \in walk[i].logged
            /\ "error" \notin walk[i].logged
            /\ walk[i].path = IF walk[i].category_path # << >>
                              THEN walk[i].category_path ELSE <<"Miscellaneous">>
            /\ walk[i].result # 0

(***************************************************************************)
(* Properties of the price breaks.                                         *)
(***************************************************************************)
\* the price-break rows and the supplier parts a step adds
NewRows == (Len(priceBreaks) + 1)..Len(priceBreaks')

NewLinkPks == (Len(supplierParts) + 1)..Len(supplierParts')

\* supplier part k links the part in hand to the LCSC SKU of record pd
IsLcscLink(k, pd) ==
    /\ supplierParts'[k].SKU = pd.lcsc_sku
    /\ supplierParts'[k].supplier = lcsc_supplier
    /\ supplierParts'[k].part = IF pc = "supplement" THEN existing_by_name ELSE part

\* supplier part k links the part in hand to the Mouser SKU of record pd
IsMouserLink(k, pd) ==
    /\ supplierParts'[k].SKU = pd.mouser_sku
    /\ supplierParts'[k].supplier = mouser_supplier
    /\ supplierParts'[k].part = IF pc = "supplement" THEN existing_by_name ELSE part

\* the rows of supplier part k after the step are the whole ladder of pd
WholeLadder(k, pd) ==
    {priceBreaks'[r].quantity : r \in {q \in NewRows : priceBreaks'[q].part = k}}
        = DOMAIN pd.price_breaks

\* C31: the price-break rows of a line's merged record go to the LCSC link
\* when the record's LCSC SKU is non-empty and to the Mouser link only when
\* it is empty, in create_part_in_inventree and in _ensure_supplier_parts
\* alike; the rows of one record never end on both links of a part.
C31_RowsOnOneLink ==
    [][(pc \in {"lcsc", "mouser", "supplement"} /\ part_data # None) =>
          LET pd == part_data[1]
          IN  /\ NewRows # {} =>
                     \E k \in NewLinkPks :
                         /\ \A r \in NewRows : priceBreaks'[r].part = k
                         /\ IF pd.lcsc_sku # "" THEN IsLcscLink(k, pd)
                            ELSE IsMouserLink(k, pd) /\ pc = "mouser"
              /\ \A k \in NewLinkPks :
                     (/\ IsLcscLink(k, pd) /\ pd.lcsc_sku # ""
                      /\ "price_break_failed" \notin calls')
                         => WholeLadder(k, pd)]_vars

\* a part with both links whose LCSC link alone carries rows, and a part
\* found by name that was given a priced LCSC link
C31_Witness ==
    /\ \E p \in 1..Len(parts) : \E a, b \in LinksOf(p) :
           /\ supplierParts[a].supplier # supplierParts[b].supplier
           /\ PricedLinks(p) = {a}
           /\ supplierParts[a].supplier = lcsc_supplier
    /\ \E i \in Entries :
           /\ hist[i].status = "name_match"
           /\ "price_break_create" \in hist[i].calls
           /\ PricedLinks(hist[i].part) # {}

\* supplier part k, made in this step, is the link that _add_price_breaks is
\* called for with the ladder of record pd
PricedLinkMade(k, pd) ==
    /\ DOMAIN pd.price_breaks # {}
    /\ IF pd.lcsc_sku # "" THEN IsLcscLink(k, pd)
       ELSE IsMouserLink(k, pd) /\ pc = "mouser"

\* the price-break rows this step gave supplier part k
RowsMadeFor(k) == {r \in NewRows : priceBreaks'[r].part = k}

\* C32: _add_price_breaks issues one create call per entry of the ladder,
\* in strictly ascending order of quantity; a create that fails neither
\* keeps the creates for the larger quantities from being attempted nor
\* raises to the caller.
C32_LadderAscending ==
    [][(pc \in {"lcsc", "mouser", "supplement"} /\ part_data # None) =>
          LET pd == part_data[1]
          IN  \A k \in NewLinkPks :
                  PricedLinkMade(k, pd) =>
                      /\ \A r, q \in RowsMadeFor(k) :
                             r < q => priceBreaks'[r].quantity < priceBreaks'[q].quantity
                      /\ \A r \in RowsMadeFor(k) :
                             /\ priceBreaks'[r].quantity \in DOMAIN pd.price_breaks
                             /\ priceBreaks'[r].price
                                    = pd.price_breaks[priceBreaks'[r].quantity]
                             /\ priceBreaks'[r].price_currency = pd.currency
                      \* every quantity was tried: each is a row or a failed call
                      /\ (/\ faults >= 0
                          /\ calls' \cap {"supplement_list_failed",
                                          "supplier_part_failed"} = {})
                             => Cardinality(RowsMadeFor(k)) + (faults - faults')
                                    = Cardinality(DOMAIN pd.price_breaks)
                      /\ pc' \in {"mouser", "return", "line"}]_vars

\* the create for the smallest quantity of a ladder failed and the row of a
\* larger quantity was created all the same
C32_Witness ==
    \E k \in 1..Len(supplierParts) :
        /\ supplierParts[k].SKU = "C1"
        /\ {priceBreaks[r].quantity :
               r \in {q \in 1..Len(priceBreaks) : priceBreaks[q].part = k}} = {100}
        /\ \E i \in Entries : /\ hist[i].part = supplierParts[k].part
                              /\ "price_break_failed" \in hist[i].calls

(***************************************************************************)
(* Properties of the two supplier links of a line.                         *)
(***************************************************************************)
\* the failed calls the step is charged with
Spent == faults - faults'

MouserLinkMade == \E k \in NewLinkPks : IsMouserLink(k, part_data[1])

LcscLinkMade == \E k \in NewLinkPks : IsLcscLink(k, part_data[1])

\* the record in hand has a Mouser SKU and the Mouser company was resolved
MouserAvailable == part_data[1].mouser_sku # "" /\ mouser_supplier # 0

\* the SKUs of the supplier parts of the part found by name
ListedSkus ==
    {supplierParts[k].SKU :
         k \in {j \in 1..Len(supplierParts) : supplierParts[j].part = existing_by_name}}

\* _ensure_supplier_parts read the SKUs of the part
ListRead == "supplement_list_failed" \notin calls'

\* _ensure_supplier_parts is to make the LCSC link
LcscDueInSupplement ==
    /\ part_data[1].lcsc_sku # ""
    /\ lcsc_supplier # 0
    /\ ~ListRead \/ part_data[1].lcsc_sku \notin ListedSkus

\* the failed calls of _ensure_supplier_parts before the create of the
\* Mouser link: the list, the create of the LCSC link, its price breaks
FailedBeforeMouser ==
    (IF ListRead THEN 0 ELSE 1)
    + (IF LcscDueInSupplement /\ ~LcscLinkMade THEN 1 ELSE 0)
    + (IF LcscDueInSupplement /\ LcscLinkMade
       THEN Cardinality(DOMAIN part_data[1].price_breaks) - Cardinality(NewRows)
       ELSE 0)

\* in _ensure_supplier_parts the create of the Mouser link was issued and
\* failed: it is the one failed call the earlier calls do not account for
MouserCreateFailed == Spent - FailedBeforeMouser = 1

\* the step took nothing away from the supplier parts and the price breaks
KeepsLinks ==
    /\ Len(supplierParts') >= Len(supplierParts)
    /\ SubSeq(supplierParts', 1, Len(supplierParts)) = supplierParts
    /\ Len(priceBreaks') >= Len(priceBreaks)
    /\ SubSeq(priceBreaks', 1, Len(priceBreaks)) = priceBreaks

\* the steps of the Mouser link, given when _ensure_supplier_parts is to try it
MouserSteps(due_in_supplement) ==
    /\ (pc = "mouser" /\ part_data # None) =>
           /\ KeepsLinks
           /\ MouserAvailable => (MouserLinkMade \/ Spent > 0)
           /\ ~MouserAvailable => (~MouserLinkMade /\ Spent = 0)
    /\ (pc = "supplement" /\ part_data # None) =>
           /\ KeepsLinks
           /\ (MouserAvailable /\ due_in_supplement)
                  => (MouserLinkMade \/ MouserCreateFailed)

\* C33: in create_part_in_inventree and in _ensure_supplier_parts the
\* creation of the Mouser link is attempted whenever the Mouser SKU is
\* non-empty and the Mouser supplier is available, whether the creation of
\* the LCSC link (or of its price breaks) succeeded, failed or was skipped;
\* and a failure for Mouser never undoes the LCSC link.
C33_LinksIndependent == [][MouserSteps(TRUE)]_vars

\* C33, restated: as above, except that _ensure_supplier_parts attempts the
\* Mouser link only for a SKU that is not among the SKUs it listed for the
\* part (for every SKU when the listing failed).
C33_LinksIndependentUnlessListed ==
    [][MouserSteps(~ListRead \/ part_data[1].mouser_sku \notin ListedSkus)]_vars

\* a part whose LCSC link could not be created and that has its Mouser link
C33_Witness ==
    \E i \in Entries :
        /\ hist[i].status = "created"
        /\ "supplier_part_failed" \in hist[i].calls
        /\ bom[hist[i].line].lcsc # << >>
        /\ \E k \in LinksOf(hist[i].part) :
               supplierParts[k].SKU = FirstSku(bom[hist[i].line].mouser)
        /\ \A k \in LinksOf(hist[i].part) :
               supplierParts[k].SKU # FirstSku(bom[hist[i].line].lcsc)

(***************************************************************************)
(* Properties of the manufacturer companies.                               *)
(***************************************************************************)
NewCompanies == (Len(companies) + 1)..Len(companies')

\* the manufacturer companies whose name is nm, ignoring case
SameManufacturer(nm) ==
    {j \in 1..Len(companies) : /\ companies[j].is_manufacturer
                               /\ Lower(companies[j].name) = Lower(nm)}

\* create_part_in_inventree calls get_or_create_manufacturer in this step
ManufacturerCalled ==
    /\ pc = "manufacturer"
    /\ pc' = "lcsc"
    /\ part_data[1].mpn # ""
    /\ part_data[1].manufacturer # ""

\* the one failed call of the step was Company.list: neither Company.create
\* nor ManufacturerPart.create was reached
ManufacturerListFailed ==
    /\ Spent = 1
    /\ "company_create" \notin calls'
    /\ "manufacturer_part_create" \notin calls'

\* C34: for any outcomes of the backend calls get_or_create_manufacturer
\* never creates a manufacturer company whose name equals, ignoring case,
\* the name of a manufacturer company that existed when it was called; and
\* when the list of the manufacturers fails, no manufacturer is created and
\* no manufacturer part is made.
C34_NoDuplicateManufacturer ==
    [][ManufacturerCalled =>
          /\ SubSeq(companies', 1, Len(companies)) = companies
          /\ Cardinality(NewCompanies) <= 1
          /\ \A k \in NewCompanies :
                 /\ companies'[k].is_manufacturer
                 /\ companies'[k].name = part_data[1].manufacturer
                 /\ SameManufacturer(companies'[k].name) = {}
          /\ ManufacturerListFailed =>
                 (companies' = companies /\ manufacturerParts' = manufacturerParts)
          /\ \A k \in (Len(manufacturerParts) + 1)..Len(manufacturerParts') :
                 /\ manufacturerParts'[k].manufacturer \in 1..Len(companies')
                 /\ Lower(companies'[manufacturerParts'[k].manufacturer].name)
                      = Lower(part_data[1].manufacturer)]_vars

\* a part from a record of "Yageo" is linked to the company "YAGEO", which
\* is the only manufacturer of that name, and another part was left without
\* manufacturer part by a failed call
C34_Witness ==
    /\ \E k \in 1..Len(manufacturerParts) :
           /\ manufacturerParts[k].MPN = "X1"
           /\ companies[manufacturerParts[k].manufacturer].name = "YAGEO"
    /\ Cardinality({j \in 1..Len(companies) :
                       Lower(companies[j].name) = "yageo"}) = 1

\* a part made although the manufacturers could not be listed: it has no
\* manufacturer part and no company was added
C34_WitnessListFailed ==
    \E i \in Entries :
        /\ hist[i].status = "created"
        /\ "manufacturer_failed" \in hist[i].calls
        /\ "company_create" \notin hist[i].calls
        /\ "manufacturer_part_create" \notin hist[i].calls
        /\ \A k \in 1..Len(manufacturerParts) :
               manufacturerParts[k].part # hist[i].part

(***************************************************************************)
(* Properties of the records the merge works on.                           *)
(***************************************************************************)
\* C35: the merge leaves the records returned by the two fetchers unchanged:
\* when _fetch_part_data returns, the LCSC record and the Mouser record each
\* still hold the field values, their own SKU fields included, that the
\* fetcher produced.
C35_FetchedRecordsUnchanged ==
    MergeDone => /\ merge[1].out.lcsc_data = MergeLcsc
                 /\ merge[1].out.mouser_data = MergeMouser

PricesFrom(r) ==
    /\ r # None
    /\ merge[1].out.result[1].price_breaks = r[1].price_breaks
    /\ merge[1].out.result[1].currency = r[1].currency

\* C38: in every merged record the currency is the one reported by the
\* supplier whose price breaks the record carries: LCSC's pair when LCSC
\* returned a record with price breaks, Mouser's pair when LCSC returned
\* none or one without price breaks and Mouser returned a record; the two
\* are replaced together or not at all.
C38_CurrencyWithPrices ==
    (MergeDone /\ merge[1].out.result # None) =>
        IF MergeLcsc # None /\ (DOMAIN MergeLcsc[1].price_breaks # {} \/ MergeMouser = None)
        THEN PricesFrom(MergeLcsc)
        ELSE PricesFrom(MergeMouser)

\* LCSC returned a record without price breaks, Mouser one priced in USD:
\* the merged record carries Mouser's price breaks in USD
C38_Witness ==
    /\ MergeDone /\ MergeLcsc # None /\ MergeMouser # None
    /\ DOMAIN MergeLcsc[1].price_breaks = {}
    /\ MergeLcsc[1].currency = "EUR"
    /\ DOMAIN MergeMouser[1].price_breaks # {}
    /\ merge[1].out.result[1].currency = "USD"
    /\ merge[1].out.result[1].price_breaks = MergeMouser[1].price_breaks

(***************************************************************************)
(* Properties of the lines of the BOM.                                     *)
(***************************************************************************)
\* line i as parsed, its resolved parts left aside
AsParsed(entry) == [entry EXCEPT !.inventree_part = << >>]

\* the line in hand is one ensure_parts_exist passes over
PassedOver ==
    /\ pc = "line"
    /\ idx <= Len(bom)
    /\ \/ bom[idx].lcsc = << >> /\ bom[idx].mouser = << >>
       \/ bom[idx].inventree_part # << >>

\* C37: ensure_parts_exist changes a line only by appending to its list of
\* resolved parts, and appends at most one part per line per run (the line
\* is left for good by the step that appends); a line that has a resolved
\* part already, and a line without SKU in either namespace, is left
\* unchanged and causes no backend call and no catalog call.
C37_LinesOnlyAppended ==
    [][pc \notin {"done", "start"} =>
          /\ Len(bom') = Len(bom)
          /\ idx' >= idx
          /\ \A i \in 1..Len(bom) :
                 /\ AsParsed(bom'[i]) = AsParsed(bom[i])
                 /\ bom'[i].inventree_part # bom[i].inventree_part =>
                        /\ i = idx
                        /\ idx' = idx + 1
                        /\ Len(bom'[i].inventree_part)
                             = Len(bom[i].inventree_part) + 1
                        /\ SubSeq(bom'[i].inventree_part, 1,
                                  Len(bom[i].inventree_part))
                             = bom[i].inventree_part
                        /\ bom'[i].inventree_part[Len(bom'[i].inventree_part)]
                             \in 1..Len(parts')
          /\ PassedOver =>
                 /\ bom' = bom
                 /\ backend' = backend
                 /\ faults' = faults
                 /\ calls' = {}
                 /\ idx' = idx + 1
                 /\ pc' = "line"]_vars

\* in one run a line resolved before was passed over and another line got
\* its part
C37_Witness ==
    \E i, j \in Entries :
        /\ hist[i].run = hist[j].run
        /\ hist[i].status = "resolved_before"
        /\ hist[i].calls = {}
        /\ hist[j].status \in ResolvedStates
        /\ Len(bom[hist[j].line].inventree_part) = 1
        /\ bom[hist[i].line].inventree_part = <<1>>

====
